---- MODULE Spec2Model ----
(***************************************************************************)
(* Model of the creative production pipeline: the studio-mode catalog and  *)
(* job-schema compiler (src/mode_system.py) and the campaign runner of     *)
(* CreativeDirector (src/creative_director.py), with the hosted inference  *)
(* call replicate.run as a nondeterministic environment step.              *)
(***************************************************************************)
EXTENDS Integers, Sequences, FiniteSets, TLC

VARIABLES
    pc,            \* position of the single thread of control
    op,            \* the entry point the caller used: "none", "schema", "campaign"
    request,       \* arguments of the caller's call
    args,          \* arguments of the create_campaign frame now executing
    studio_modes,  \* CreativeDirector.studio_modes.modes
    briefs,        \* CreativeDirector.briefs
    current_mode,  \* CreativeDirector.current_mode
    job_schema,    \* local job_schema of _create_mode_campaign / value returned by create_job_schema
    results,       \* local results accumulator
    idx,           \* 1-based position of the running for-loop
    calls,         \* history of replicate.run invocations: <<[job, model, input]>>
    outs,          \* history of what each invocation produced: <<[job, outcome]>>
    files,         \* metadata files written: path |-> record
    saves,         \* number of metadata writes performed
    pages,         \* landing pages written: path |-> page
    enhanced,      \* local enhanced_prompts of create_campaign
    use_claude,    \* truthiness of the USE_CLAUDE environment variable, as the run reads it
    ret,           \* value returned to the caller
    raised         \* exception that left the entry point ("none" when none)

vars == <<pc, op, request, args, studio_modes, briefs, current_mode, job_schema,
          results, idx, calls, outs, files, saves, pages, enhanced, use_claude, ret, raised>>

(***************************************************************************)
(* Python values.  Every value that may be None, a str, an object with a   *)
(* url attribute (replicate's FileOutput), a list or a dict is a tagged    *)
(* record, so that "is a string" is a checkable property of a stored value.*)
(***************************************************************************)
PyNone == [kind |-> "none"]
PyStr(s) == [kind |-> "str", v |-> s]
PyObj(u) == [kind |-> "obj", url |-> u]
PyList(xs) == [kind |-> "list", items |-> xs]
PyDict(d) == [kind |-> "dict", map |-> d]
PyFloat(r) == [kind |-> "float", repr |-> r]

IsStr(v) == v.kind = "str"
IsNone(v) == v.kind = "none"

\* Python truthiness: `if output:`
Truthy(v) ==
    CASE v.kind = "none" -> FALSE
      [] v.kind = "str"  -> Len(v.v) > 0
      [] v.kind = "obj"  -> TRUE
      [] v.kind = "list" -> Len(v.items) > 0
      [] v.kind = "dict" -> DOMAIN v.map # {}
      [] OTHER -> TRUE

\* repr(x) of a value inside a container
PyRepr(v) ==
    CASE v.kind = "none" -> "None"
      [] v.kind = "str"  -> "'" \o v.v \o "'"
      [] v.kind = "obj"  -> "FileOutput(url='" \o v.url \o "')"
      [] OTHER -> "<object>"

RECURSIVE JoinRepr(_)
JoinRepr(xs) ==
    IF Len(xs) = 0 THEN ""
    ELSE IF Len(xs) = 1 THEN PyRepr(xs[1])
    ELSE PyRepr(xs[1]) \o ", " \o JoinRepr(Tail(xs))

\* str(x): always a str; a FileOutput prints as its url, a list as its repr
ToStr(v) ==
    CASE v.kind = "none" -> PyStr("None")
      [] v.kind = "str"  -> v
      [] v.kind = "obj"  -> PyStr(v.url)
      [] v.kind = "list" -> PyStr("[" \o JoinRepr(v.items) \o "]")
      [] OTHER -> PyStr("<object>")

\* `sub in s` on Python strings
RECURSIVE ContainsFrom(_, _, _)
ContainsFrom(sub, s, i) ==
    IF i + Len(sub) - 1 > Len(s) THEN FALSE
    ELSE IF SubSeq(s, i, i + Len(sub) - 1) = sub THEN TRUE
    ELSE ContainsFrom(sub, s, i + 1)

Contains(sub, s) == ContainsFrom(sub, s, 1)

StartsWith(s, p) == Len(p) <= Len(s) /\ SubSeq(s, 1, Len(p)) = p
EndsWith(s, p) == Len(p) <= Len(s) /\ SubSeq(s, Len(s) - Len(p) + 1, Len(s)) = p

\* dict.get(key, default)
DictGet(d, k, default) == IF k \in DOMAIN d THEN d[k] ELSE default

Range(f) == {f[x] : x \in DOMAIN f}

(***************************************************************************)
(* The mode catalog: StudioModes._initialize_modes.  A Python dict is a    *)
(* pair of its keys in insertion order and its mapping.                    *)
(***************************************************************************)
ModeParallaxNocturne ==
    [name |-> "Parallax Nocturne",
     description |-> "Deep parallax motion with nocturnal aesthetic",
     studio_inspiration |-> "Locomotive (Montreal)",
     prompt_kernel |-> "deep parallax layers, nocturnal palette, cinematic depth of field, premium motion design, smooth camera movements, professional color grading, high-end commercial aesthetic",
     negative_prompt |-> "flat composition, harsh daylight, amateur, static, low quality, watermark",
     color_palette |-> <<"#1a1a2e", "#0f0f1e", "#232347", "#5c5c8a", "#9999ff">>,
     motion_style |-> "smooth parallax scrolling, depth-based motion, professional easing curves",
     audio_character |-> "atmospheric, deep bass, cinematic ambience, subtle motion sounds",
     preferred_models |-> [image |-> "flux_dev", video |-> "cogvideox", audio |-> "musicgen"],
     quality_settings |-> [steps |-> 50, guidance |-> 12, fps |-> 24, frames |-> 48, audio_duration |-> 15]]

ModeRustLuxeBaroque ==
    [name |-> "Rust-Luxe Baroque",
     description |-> "Decayed opulence meets modern luxury",
     studio_inspiration |-> "Studio Blup (Sao Paulo)",
     prompt_kernel |-> "rust texture over gold leaf, baroque ornamental details, luxury brand aesthetic, decaying opulence, high fashion photography, editorial lighting, premium materials, weathered elegance",
     negative_prompt |-> "cheap, plastic, new, pristine, amateur photography, flat lighting",
     color_palette |-> <<"#8B4513", "#DAA520", "#2F4F4F", "#8B7355", "#CD853F">>,
     motion_style |-> "slow reveal, texture focus, luxury brand pacing",
     audio_character |-> "orchestral with industrial undertones, premium sound design",
     preferred_models |-> [image |-> "seedream", video |-> "svd", audio |-> "riffusion"],
     quality_settings |-> [steps |-> 60, guidance |-> 15, fps |-> 30, frames |-> 60, audio_duration |-> 20]]

ModeKineticTypography ==
    [name |-> "Kinetic Typography",
     description |-> "Dynamic text as primary visual element",
     studio_inspiration |-> "Obys Agency (Kyiv)",
     prompt_kernel |-> "bold typographic design, kinetic text animation, Swiss design principles, dynamic letter forms, professional typography, grid-based layout, motion graphics, clean minimalism",
     negative_prompt |-> "handwritten, comic sans, amateur fonts, cluttered, no text",
     color_palette |-> <<"#000000", "#FFFFFF", "#FF0000", "#0000FF", "#FFFF00">>,
     motion_style |-> "text-driven animation, letter morphing, typographic rhythm",
     audio_character |-> "rhythmic, percussive, synchronized to text motion",
     preferred_models |-> [image |-> "ideogram", video |-> "animatediff", audio |-> "musicgen"],
     quality_settings |-> [steps |-> 40, guidance |-> 10, fps |-> 30, frames |-> 90, audio_duration |-> 10]]

ModeWebglDreams ==
    [name |-> "WebGL Dreams",
     description |-> "3D web-native aesthetic with shader-like effects",
     studio_inspiration |-> "Immersive Garden (Paris)",
     prompt_kernel |-> "WebGL aesthetic, shader effects, 3D rendered, metallic reflections, iridescent surfaces, particle systems, real-time rendering look, interactive design aesthetic, GPU-accelerated visuals",
     negative_prompt |-> "flat 2D, no depth, static image, print design, low poly",
     color_palette |-> <<"#00FFFF", "#FF00FF", "#7B68EE", "#4169E1", "#9370DB">>,
     motion_style |-> "3D camera movements, shader animations, particle effects",
     audio_character |-> "electronic, generative, interactive sound design",
     preferred_models |-> [image |-> "flux_dev", video |-> "zeroscope", audio |-> "riffusion"],
     quality_settings |-> [steps |-> 45, guidance |-> 11, fps |-> 60, frames |-> 120, audio_duration |-> 12]]

ModeMineralFuturism ==
    [name |-> "Mineral Futurism",
     description |-> "Geological textures meet sci-fi aesthetics",
     studio_inspiration |-> "Buck Design (LA/NYC)",
     prompt_kernel |-> "crystalline structures, mineral formations, futuristic materials, geometric patterns, refractive surfaces, scientific visualization, premium 3D rendering, subsurface scattering",
     negative_prompt |-> "organic, soft, natural, vintage, hand-drawn",
     color_palette |-> <<"#4A90E2", "#7FFF00", "#FF1493", "#00CED1", "#FFD700">>,
     motion_style |-> "crystal growth animation, refractive light play, geometric transitions",
     audio_character |-> "crystalline tones, synthetic textures, future ambient",
     preferred_models |-> [image |-> "seedream", video |-> "cogvideox", audio |-> "musicgen"],
     quality_settings |-> [steps |-> 55, guidance |-> 13, fps |-> 24, frames |-> 48, audio_duration |-> 18]]

ModeSoftBrutalism ==
    [name |-> "Soft Brutalism",
     description |-> "Monolithic forms with unexpected softness",
     studio_inspiration |-> "Resn (Wellington)",
     prompt_kernel |-> "brutalist architecture, soft gradient overlays, massive concrete forms, pastel color washes, monolithic structures, architectural photography, soft lighting on hard surfaces",
     negative_prompt |-> "ornate, decorated, busy, natural materials, wood, plants",
     color_palette |-> <<"#C0C0C0", "#FFB6C1", "#E6E6FA", "#F0E68C", "#D3D3D3">>,
     motion_style |-> "slow architectural reveals, light play on concrete, subtle gradient shifts",
     audio_character |-> "ambient reverb, spatial audio, architectural acoustics",
     preferred_models |-> [image |-> "flux_schnell", video |-> "svd", audio |-> "riffusion"],
     quality_settings |-> [steps |-> 50, guidance |-> 12, fps |-> 12, frames |-> 36, audio_duration |-> 25]]

ModeOrder == <<"parallax_nocturne", "rust_luxe_baroque", "kinetic_typography", "webgl_dreams", "mineral_futurism", "soft_brutalism">>

InitializeModes ==
    [keys |-> ModeOrder,
     at |-> [parallax_nocturne |-> ModeParallaxNocturne,
            rust_luxe_baroque |-> ModeRustLuxeBaroque,
            kinetic_typography |-> ModeKineticTypography,
            webgl_dreams |-> ModeWebglDreams,
            mineral_futurism |-> ModeMineralFuturism,
            soft_brutalism |-> ModeSoftBrutalism]]

\* StudioModes.get_mode: dict.get, None for a name that is not a key
get_mode(modes, mode_name) ==
    IF mode_name \in DOMAIN modes.at THEN modes.at[mode_name] ELSE PyNone

\* StudioModes.list_modes
list_modes(modes) == modes.keys

(***************************************************************************)
(* CreativeMode: the three parameter builders.                             *)
(***************************************************************************)
\* get_image_prompt with the kernel put in front of the base prompt
get_image_prompt_kernel_first(config, base_prompt) ==
    [prompt |-> config.prompt_kernel \o ", " \o base_prompt,
     negative_prompt |-> config.negative_prompt,
     guidance_scale |-> DictGet(config.quality_settings, "guidance", PyFloat("7.5")),
     num_inference_steps |-> DictGet(config.quality_settings, "steps", 30)]

get_image_prompt(config, base_prompt) ==
    [prompt |-> base_prompt \o ", " \o config.prompt_kernel,
     negative_prompt |-> config.negative_prompt,
     guidance_scale |-> DictGet(config.quality_settings, "guidance", PyFloat("7.5")),
     num_inference_steps |-> DictGet(config.quality_settings, "steps", 30)]

get_video_prompt(config, base_prompt) ==
    [prompt |-> base_prompt \o ", " \o config.motion_style,
     fps |-> DictGet(config.quality_settings, "fps", 8),
     num_frames |-> DictGet(config.quality_settings, "frames", 24)]

get_audio_prompt(config, base_prompt) ==
    [prompt |-> base_prompt \o ", " \o config.audio_character,
     duration |-> DictGet(config.quality_settings, "audio_duration", 10)]

(***************************************************************************)
(* ReplicateOrchestrator: one job per asset, shaped by substring match on  *)
(* the preferred model's name.                                             *)
(***************************************************************************)
\* prepare_image_job whose flux branch also passes the negative prompt
prepare_image_job_flux_negative(config, prompt, aspect_ratio) ==
    LET params == get_image_prompt(config, prompt)
        model == config.preferred_models["image"]
    IN  IF Contains("flux", model) THEN
            [model |-> model,
             input |-> [prompt |-> params.prompt,
                        negative_prompt |-> params.negative_prompt,
                        num_outputs |-> 1,
                        aspect_ratio |-> aspect_ratio,
                        output_format |-> "png",
                        output_quality |-> 95,
                        guidance |-> params.guidance_scale,
                        num_inference_steps |-> params.num_inference_steps]]
        ELSE
            [model |-> IF Contains("seedream", model) \/ Contains("ideogram", model)
                       THEN model ELSE "stability-ai/sdxl",
             input |-> [prompt |-> params.prompt,
                        negative_prompt |-> params.negative_prompt,
                        width |-> 1024,
                        height |-> 1024,
                        num_outputs |-> 1,
                        guidance_scale |-> params.guidance_scale,
                        num_inference_steps |-> params.num_inference_steps]]

prepare_image_job(config, prompt, aspect_ratio) ==
    LET params == get_image_prompt(config, prompt)
        model == config.preferred_models["image"]
    IN  IF Contains("flux", model) THEN
            [model |-> model,
             input |-> [prompt |-> params.prompt,
                        num_outputs |-> 1,
                        aspect_ratio |-> aspect_ratio,
                        output_format |-> "png",
                        output_quality |-> 95,
                        guidance |-> params.guidance_scale,
                        num_inference_steps |-> params.num_inference_steps]]
        ELSE IF Contains("seedream", model) \/ Contains("ideogram", model) THEN
            [model |-> model,
             input |-> [prompt |-> params.prompt,
                        negative_prompt |-> params.negative_prompt,
                        width |-> 1024,
                        height |-> 1024,
                        num_outputs |-> 1,
                        guidance_scale |-> params.guidance_scale,
                        num_inference_steps |-> params.num_inference_steps]]
        ELSE
            [model |-> "stability-ai/sdxl",
             input |-> [prompt |-> params.prompt,
                        negative_prompt |-> params.negative_prompt,
                        width |-> 1024,
                        height |-> 1024,
                        num_outputs |-> 1,
                        guidance_scale |-> params.guidance_scale,
                        num_inference_steps |-> params.num_inference_steps]]

\* prepare_video_job without its final fallback branch: nothing is built for a model
\* that is neither text-conditioned with a prompt nor image-conditioned with an image
prepare_video_job_no_fallback(config, prompt, image_url) ==
    LET params == get_video_prompt(config, IF Truthy(prompt) THEN prompt.v ELSE "")
        model == config.preferred_models["video"]
    IN  IF Contains("cogvideox", model) /\ Truthy(prompt) THEN
            [model |-> model,
             input |-> [prompt |-> params.prompt,
                        num_frames |-> params.num_frames,
                        fps |-> params.fps,
                        guidance_scale |-> 7,
                        num_inference_steps |-> 50]]
        ELSE IF Contains("svd", model) /\ Truthy(image_url) THEN
            [model |-> model,
             input |-> [input_image |-> image_url,
                        video_length |-> "25_frames",
                        sizing_strategy |-> "maintain_aspect_ratio",
                        frames_per_second |-> params.fps,
                        motion_bucket_id |-> 127]]
        ELSE
            [model |-> "", input |-> [x \in {} |-> PyNone]]

\* prompt and image_url are Python values (None when the argument is omitted)
prepare_video_job(config, prompt, image_url) ==
    LET params == get_video_prompt(config, IF Truthy(prompt) THEN prompt.v ELSE "")
        model == config.preferred_models["video"]
    IN  IF Contains("cogvideox", model) /\ Truthy(prompt) THEN
            [model |-> model,
             input |-> [prompt |-> params.prompt,
                        num_frames |-> params.num_frames,
                        fps |-> params.fps,
                        guidance_scale |-> 7,
                        num_inference_steps |-> 50]]
        ELSE IF Contains("svd", model) /\ Truthy(image_url) THEN
            [model |-> model,
             input |-> [input_image |-> image_url,
                        video_length |-> "25_frames",
                        sizing_strategy |-> "maintain_aspect_ratio",
                        frames_per_second |-> params.fps,
                        motion_bucket_id |-> 127]]
        ELSE
            [model |-> "anotherjesse/zeroscope-v2-xl",
             input |-> [prompt |-> params.prompt,
                        width |-> 1024,
                        height |-> 576,
                        num_frames |-> params.num_frames,
                        fps |-> params.fps]]

\* prepare_audio_job that asks musicgen for the default duration whatever the mode
prepare_audio_job_default_duration(config, prompt) ==
    LET params == get_audio_prompt(config, prompt)
        model == config.preferred_models["audio"]
    IN  IF Contains("musicgen", model) THEN
            [model |-> "meta/musicgen",
             input |-> [prompt |-> params.prompt,
                        duration |-> 10,
                        temperature |-> PyFloat("0.8"),
                        top_k |-> 250,
                        top_p |-> PyFloat("0.9")]]
        ELSE
            [model |-> "riffusion/riffusion",
             input |-> [prompt_a |-> params.prompt,
                        denoising |-> PyFloat("0.75"),
                        seed_image_id |-> "vibes"]]

prepare_audio_job(config, prompt) ==
    LET params == get_audio_prompt(config, prompt)
        model == config.preferred_models["audio"]
    IN  IF Contains("musicgen", model) THEN
            [model |-> "meta/musicgen",
             input |-> [prompt |-> params.prompt,
                        duration |-> params.duration,
                        temperature |-> PyFloat("0.8"),
                        top_k |-> 250,
                        top_p |-> PyFloat("0.9")]]
        ELSE
            [model |-> "riffusion/riffusion",
             input |-> [prompt_a |-> params.prompt,
                        denoising |-> PyFloat("0.75"),
                        seed_image_id |-> "vibes"]]

(***************************************************************************)
(* create_job_schema.  The result is either the raised exception or the    *)
(* returned schema; the jobs dict keeps its insertion order in `keys`.     *)
(***************************************************************************)
JobOrder == <<"hero_image", "detail_shot", "lifestyle_shot", "hero_video", "soundtrack">>

\* create_job_schema that substitutes the first catalog mode for an unknown name
\* instead of raising
create_job_schema_default_mode(mode_name, product_name, product_desc) ==
    LET found == get_mode(InitializeModes, mode_name)
        mode == IF found = PyNone THEN InitializeModes.at[ModeOrder[1]] ELSE found
    IN  [raised |-> "none",
         value |->
           [meta |-> [mode |-> mode_name,
                      product |-> product_name,
                      description |-> product_desc,
                      studio_inspiration |-> mode.studio_inspiration],
            keys |-> JobOrder,
            jobs |->
              [hero_image |-> prepare_image_job(mode,
                   product_name \o " product hero shot, " \o product_desc, "16:9"),
               detail_shot |-> prepare_image_job(mode,
                   product_name \o " detail close-up, premium product photography, "
                       \o product_desc, "1:1"),
               lifestyle_shot |-> prepare_image_job(mode,
                   product_name \o " in use, lifestyle photography, " \o product_desc, "4:3"),
               hero_video |-> prepare_video_job(mode,
                   PyStr(product_name \o " cinematic reveal, " \o product_desc), PyNone),
               soundtrack |-> prepare_audio_job(mode,
                   "product launch music for " \o product_name \o ", "
                       \o mode.audio_character)]]]

create_job_schema(mode_name, product_name, product_desc) ==
    LET mode == get_mode(InitializeModes, mode_name)
    IN  IF mode = PyNone THEN
            [raised |-> "ValueError", value |-> PyNone]
        ELSE
            [raised |-> "none",
             value |->
               [meta |-> [mode |-> mode_name,
                          product |-> product_name,
                          description |-> product_desc,
                          studio_inspiration |-> mode.studio_inspiration],
                keys |-> JobOrder,
                jobs |->
                  [hero_image |-> prepare_image_job(mode,
                       product_name \o " product hero shot, " \o product_desc, "16:9"),
                   detail_shot |-> prepare_image_job(mode,
                       product_name \o " detail close-up, premium product photography, "
                           \o product_desc, "1:1"),
                   lifestyle_shot |-> prepare_image_job(mode,
                       product_name \o " in use, lifestyle photography, " \o product_desc, "4:3"),
                   hero_video |-> prepare_video_job(mode,
                       PyStr(product_name \o " cinematic reveal, " \o product_desc), PyNone),
                   soundtrack |-> prepare_audio_job(mode,
                       "product launch music for " \o product_name \o ", "
                           \o mode.audio_character)]]]

(***************************************************************************)
(* CreativeDirector.__init__: the tables of the director.                  *)
(***************************************************************************)
models ==
    [seedream |-> "bytedance/seedream-3",
     flux_schnell |-> "black-forest-labs/flux-schnell",
     ideogram |-> "ideogram-ai/ideogram-v3-turbo",
     recraft_svg |-> "recraft-ai/recraft-v3-svg",
     flux_dev |-> "black-forest-labs/flux-dev",
     sdxl |-> "stability-ai/sdxl:39ed52f2a78e934b3ba6e2a89f5b1c712de7dfea535525255b1aa35c5565e08b",
     playground |-> "playgroundai/playground-v2.5-1024px-aesthetic:42fe626e41cc811eaf02c94b892774839268ce1994ea778eba97103fe1ef51b8",
     svd |-> "stability-ai/stable-video-diffusion:3f0457e4619daac51203dedb472816fd4af51f3149fa7a9e0b5ffcf1b8172438",
     cogvideox |-> "fofr/cogvideox-5b:70e0d70174e00dce12207c7e015c5fb09e957ac5a8b0e5f7a04f2ac18009e519",
     zeroscope |-> "anotherjesse/zeroscope-v2-xl:9f747673945c62801b13b84701c783929c0ee784e4748ec062204894dda1a351",
     animatediff |-> "lucataco/animate-diff:1531004ee4c98894ab11f8a4ce6206099e732c1da15121987a8eef54828f0663",
     i2vgen |-> "ali-vilab/i2vgen-xl:5821a9d7c4b8a76ae89cf942779b41abaf377cd018bff9ccbd00d2b9c92bf0f0",
     riffusion |-> "riffusion/riffusion:8cf61ea6c56afd61d8f5b9ffd14d7c216c0a93844ce2d82ac1c9ecc9c7f24e05",
     musicgen |-> "meta/musicgen:671ac645ce5e552cc63a54a2bbff63fcf798043055d2dac5fc9e36a837eedcfb"]

default_image == "flux_schnell"
default_video == "svd"
default_audio == "riffusion"

BriefOrder == <<"salem_aesthetic", "product_launch", "social_campaign", "brand_story", "educational_content">>

InitialBriefs ==
    [salem_aesthetic |->
       [name |-> "Salem Opulence-Adjacent Decay",
        prompts |-> <<"couture-grunge texture, trailer-park baroque interior, gold grills beside crystal rosaries, velvet-curtained F-150 truck, resource-heavy chrome flipped to ruin porn, decision-grade creative vision",
                      "Catholic-ballerina iconography over trap-house neon, satin ballet slippers muddied in rural Michigan clay, abandoned K-mart crucifixes, Wal-Mart votive candles, gothic Americana meets Southern prosperity",
                      "Ranchero chandelier above lean-filled crystal stemware, crushed-velvet church pews, Confederate flag repurposed as couture cape, chrome ATV graveyard, oil-slick rainbow, bullion-tone filters">>,
        audio |-> "trap-influenced church organ, Southern gothic hymnal, prosperity gospel choir over 808s, trailer-park baroque symphony"],
     product_launch |->
       [name |-> "Product Launch Campaign",
        prompts |-> <<"sleek product hero shot, minimalist background, professional lighting, commercial photography",
                      "product in use, lifestyle setting, happy customer, bright natural lighting",
                      "product detail close-up, highlighting features, studio lighting, premium quality">>,
        audio |-> "uplifting corporate music, inspiring, modern, professional presentation soundtrack"],
     social_campaign |->
       [name |-> "Social Media Campaign",
        prompts |-> <<"eye-catching social media post, vibrant colors, trending design, Instagram aesthetic",
                      "engaging story format, vertical composition, bold typography, social media graphics",
                      "shareable content design, modern illustration style, bright and optimistic">>,
        audio |-> "upbeat social media music, catchy, short form content, viral sound"],
     brand_story |->
       [name |-> "Brand Storytelling",
        prompts |-> <<"authentic brand moment, documentary style, real people, natural environment",
                      "company values visualization, abstract concept art, meaningful symbolism",
                      "brand heritage montage, timeline visualization, evolution story">>,
        audio |-> "emotional brand music, storytelling soundtrack, inspiring narrative score"],
     educational_content |->
       [name |-> "Educational Content",
        prompts |-> <<"clean infographic design, data visualization, educational poster, clear typography",
                      "step-by-step tutorial illustration, instructional design, helpful diagrams",
                      "educational animation frame, explaining concept, simple and clear visuals">>,
        audio |-> "educational background music, focus-enhancing, calm learning atmosphere"]]

quality_levels ==
    [draft |-> [steps |-> 20, guidance |-> PyFloat("7.5")],
     standard |-> [steps |-> 30, guidance |-> 10],
     premium |-> [steps |-> 50, guidance |-> 15]]

(***************************************************************************)
(* Inputs.  The caller's arguments of create_campaign, the clock and what  *)
(* the hosted inference call produces are drawn from small sets.           *)
(***************************************************************************)
DefaultArgs ==
    [brief_type |-> PyNone, quality |-> "standard", include_video |-> FALSE,
     video_type |-> "image2video", image_model |-> PyNone, enhance_prompts |-> FALSE,
     generate_landing |-> FALSE, mode |-> PyNone, product_name |-> PyNone,
     product_desc |-> PyNone]

UnknownModeName == "vapor_noir"

ModeNameInputs == Range(ModeOrder) \cup {UnknownModeName}
ProductNameInputs == {"HaloOne"}
SchemaProductInputs == {"", "HaloOne", "Aria 2"}
DescriptionInputs == {"", "wireless headphones"}
ProductDescInputs == {PyNone} \cup {PyStr(d) : d \in DescriptionInputs}

StudioRequests ==
    {[DefaultArgs EXCEPT !.mode = PyStr(m), !.product_name = PyStr(p), !.product_desc = d,
                         !.include_video = v, !.generate_landing = g] :
        m \in ModeNameInputs, p \in ProductNameInputs, d \in ProductDescInputs,
        v \in BOOLEAN, g \in BOOLEAN}

Timestamps == {1700000000}

AssetUrl(job) == "https://replicate.delivery/" \o job

\* the shapes replicate.run returns: nothing, a url string, a FileOutput, a list of them
ReturnValues(job) ==
    {PyNone, PyStr(AssetUrl(job)), PyObj(AssetUrl(job)), PyList(<<PyObj(AssetUrl(job))>>)}

Outcomes(job) ==
    {[raises |-> TRUE, value |-> PyNone]}
        \cup {[raises |-> FALSE, value |-> v] : v \in ReturnValues(job)}

\* d[k] = v on a dict held as a record
DictSet(d, k, v) == [x \in DOMAIN d \cup {k} |-> IF x = k THEN v ELSE d[x]]

EmptyMap == [x \in {} |-> PyNone]

Init ==
    /\ pc = "idle"
    /\ op = "none"
    /\ request = DefaultArgs
    /\ args = DefaultArgs
    /\ studio_modes = InitializeModes
    /\ briefs = [keys |-> BriefOrder, at |-> InitialBriefs]
    /\ current_mode = PyNone
    /\ job_schema = PyNone
    /\ results = PyNone
    /\ idx = 0
    /\ calls = <<>>
    /\ outs = <<>>
    /\ files = EmptyMap
    /\ saves = 0
    /\ pages = EmptyMap
    /\ enhanced = <<>>
    /\ use_claude = FALSE
    /\ ret = PyNone
    /\ raised = "none"

(***************************************************************************)
(* create_job_schema called directly by a client (examples/haloone_demo).  *)
(***************************************************************************)
CallCreateJobSchema(mode_name, product_name, product_desc) ==
    /\ pc = "idle"
    /\ LET r == create_job_schema(mode_name, product_name, product_desc)
       IN  /\ raised' = r.raised
           /\ ret' = r.value
           /\ job_schema' = r.value
    /\ op' = "create_job_schema"
    /\ request' = [DefaultArgs EXCEPT !.mode = PyStr(mode_name),
                                      !.product_name = PyStr(product_name),
                                      !.product_desc = PyStr(product_desc)]
    /\ pc' = "done"
    /\ UNCHANGED <<args, studio_modes, briefs, current_mode, results, idx, calls, outs,
                   files, saves, pages, enhanced, use_claude>>

(***************************************************************************)
(* The catalog queries a client makes on director.studio_modes before it   *)
(* compiles a schema or runs a campaign; each returns at once.             *)
(***************************************************************************)
\* StudioModes.get_mode_info: a copy of the mode's configuration, {} for an unknown name
get_mode_info(modes, mode_name) ==
    LET mode == get_mode(modes, mode_name)
    IN  IF mode # PyNone THEN mode ELSE EmptyMap

\* a lookup written with dict.setdefault, which enters the unknown name
CallGetMode_setdefault(mode_name) ==
    /\ pc = "idle"
    /\ op' = "get_mode"
    /\ request' = [DefaultArgs EXCEPT !.mode = PyStr(mode_name)]
    /\ ret' = get_mode(studio_modes, mode_name)
    /\ studio_modes' = IF mode_name \in DOMAIN studio_modes.at THEN studio_modes
                       ELSE [keys |-> Append(studio_modes.keys, mode_name),
                             at |-> DictSet(studio_modes.at, mode_name, PyNone)]
    /\ UNCHANGED <<pc, args, briefs, current_mode, job_schema, results, idx,
                   calls, outs, files, saves, pages, enhanced, use_claude, raised>>

CallGetMode(mode_name) ==
    /\ pc = "idle"
    /\ op' = "get_mode"
    /\ request' = [DefaultArgs EXCEPT !.mode = PyStr(mode_name)]
    /\ ret' = get_mode(studio_modes, mode_name)
    /\ UNCHANGED <<pc, args, studio_modes, briefs, current_mode, job_schema, results, idx,
                   calls, outs, files, saves, pages, enhanced, use_claude, raised>>

CallListModes ==
    /\ pc = "idle"
    /\ op' = "list_modes"
    /\ request' = DefaultArgs
    /\ ret' = PyList(list_modes(studio_modes))
    /\ UNCHANGED <<pc, args, studio_modes, briefs, current_mode, job_schema, results, idx,
                   calls, outs, files, saves, pages, enhanced, use_claude, raised>>

CallGetModeInfo(mode_name) ==
    /\ pc = "idle"
    /\ op' = "get_mode_info"
    /\ request' = [DefaultArgs EXCEPT !.mode = PyStr(mode_name)]
    /\ ret' = get_mode_info(studio_modes, mode_name)
    /\ UNCHANGED <<pc, args, studio_modes, briefs, current_mode, job_schema, results, idx,
                   calls, outs, files, saves, pages, enhanced, use_claude, raised>>

(***************************************************************************)
(* CreativeDirector.create_campaign up to its first remote call.           *)
(***************************************************************************)
\* BriefKey whose default is the first brief of the table
BriefKey_first_brief(a) ==
    IF IsStr(a.brief_type) /\ a.brief_type.v \in DOMAIN briefs.at
    THEN a.brief_type.v ELSE BriefOrder[1]

BriefKey(a) ==
    IF IsStr(a.brief_type) /\ a.brief_type.v \in DOMAIN briefs.at
    THEN a.brief_type.v ELSE "product_launch"

ImageModel(a) == IF Truthy(a.image_model) THEN a.image_model.v ELSE default_image

QualitySettings(a) == DictGet(quality_levels, a.quality, quality_levels["standard"])

\* the legacy brief path: lines 131-152, entered with the arguments a
LegacyEntry(a, ts) ==
    /\ args' = a
    /\ results' = [brief_type |-> a.brief_type,
                   quality |-> a.quality,
                   model |-> ImageModel(a),
                   images |-> <<>>,
                   video |-> PyNone,
                   audio |-> PyNone,
                   timestamp |-> ts]
    /\ idx' = 1
    /\ pc' = IF a.enhance_prompts THEN "legacy_enhance" ELSE "legacy_images"
    /\ IF a.enhance_prompts \/ a.generate_landing
       THEN use_claude' \in BOOLEAN
       ELSE use_claude' = use_claude
    /\ ret' = PyNone
    /\ UNCHANGED <<current_mode, job_schema, raised>>

\* a fallback that hands the caller's options on to the product_launch campaign
ModeEntry_keeps_flags(a, mode_name, product_name, product_desc, ts) ==
    LET mode == get_mode(studio_modes, mode_name)
    IN  IF mode = PyNone THEN
            LegacyEntry([a EXCEPT !.brief_type = PyStr("product_launch"),
                                  !.mode = PyNone, !.product_name = PyNone,
                                  !.product_desc = PyNone], ts)
        ELSE
            LET r == create_job_schema(mode_name, product_name, product_desc)
            IN  /\ current_mode' = mode
                /\ args' = [a EXCEPT !.product_desc = PyStr(product_desc)]
                /\ use_claude' = use_claude
                /\ IF r.raised # "none" THEN
                       /\ raised' = r.raised
                       /\ pc' = "done"
                       /\ ret' = PyNone
                       /\ UNCHANGED <<job_schema, results, idx>>
                   ELSE
                       /\ job_schema' = r.value
                       /\ results' = [mode |-> mode_name,
                                      product |-> product_name,
                                      description |-> product_desc,
                                      studio_inspiration |-> mode.studio_inspiration,
                                      images |-> <<>>,
                                      video |-> PyNone,
                                      audio |-> PyNone,
                                      timestamp |-> ts]
                       /\ idx' = 1
                       /\ pc' = "mode_images"
                       /\ ret' = PyNone
                       /\ UNCHANGED raised

\* _create_mode_campaign, lines 332-360
ModeEntry(a, mode_name, product_name, product_desc, ts) ==
    LET mode == get_mode(studio_modes, mode_name)
    IN  IF mode = PyNone THEN
            LegacyEntry([DefaultArgs EXCEPT !.brief_type = PyStr("product_launch")], ts)
        ELSE
            LET r == create_job_schema(mode_name, product_name, product_desc)
            IN  /\ current_mode' = mode
                /\ args' = [a EXCEPT !.product_desc = PyStr(product_desc)]
                /\ use_claude' = use_claude
                /\ IF r.raised # "none" THEN
                       /\ raised' = r.raised
                       /\ pc' = "done"
                       /\ ret' = PyNone
                       /\ UNCHANGED <<job_schema, results, idx>>
                   ELSE
                       /\ job_schema' = r.value
                       /\ results' = [mode |-> mode_name,
                                      product |-> product_name,
                                      description |-> product_desc,
                                      studio_inspiration |-> mode.studio_inspiration,
                                      images |-> <<>>,
                                      video |-> PyNone,
                                      audio |-> PyNone,
                                      timestamp |-> ts]
                       /\ idx' = 1
                       /\ pc' = "mode_images"
                       /\ ret' = PyNone
                       /\ UNCHANGED raised

\* create_campaign handing the description on as f"{product_desc}"
CreateCampaign_desc_formatted(a) ==
    /\ pc = "idle"
    /\ op' = "create_campaign"
    /\ request' = a
    /\ \E ts \in Timestamps :
          IF Truthy(a.mode) /\ Truthy(a.product_name) THEN
              ModeEntry(a, a.mode.v, a.product_name.v, ToStr(a.product_desc).v, ts)
          ELSE
              LegacyEntry(a, ts)
    /\ UNCHANGED <<studio_modes, briefs, calls, outs, files, saves, pages, enhanced>>

\* create_campaign choosing the studio-mode path on the mode alone
CreateCampaign_mode_alone(a) ==
    /\ pc = "idle"
    /\ op' = "create_campaign"
    /\ request' = a
    /\ \E ts \in Timestamps :
          IF Truthy(a.mode) THEN
              ModeEntry(a, a.mode.v,
                        IF Truthy(a.product_name) THEN a.product_name.v ELSE "",
                        IF Truthy(a.product_desc) THEN a.product_desc.v ELSE "", ts)
          ELSE
              LegacyEntry(a, ts)
    /\ UNCHANGED <<studio_modes, briefs, calls, outs, files, saves, pages, enhanced>>

CreateCampaign(a) ==
    /\ pc = "idle"
    /\ op' = "create_campaign"
    /\ request' = a
    /\ \E ts \in Timestamps :
          IF Truthy(a.mode) /\ Truthy(a.product_name) THEN
              ModeEntry(a, a.mode.v, a.product_name.v,
                        IF Truthy(a.product_desc) THEN a.product_desc.v ELSE "", ts)
          ELSE
              LegacyEntry(a, ts)
    /\ UNCHANGED <<studio_modes, briefs, calls, outs, files, saves, pages, enhanced>>

(***************************************************************************)
(* _create_mode_campaign: the job loop, lines 362-421.                     *)
(***************************************************************************)
IsModeRun == results # PyNone /\ "mode" \in DOMAIN results
IsLegacyRun == results # PyNone /\ "brief_type" \in DOMAIN results

\* an image loop that attempts a failed job again
ModeImageStep_retry ==
    /\ pc = "mode_images"
    /\ LET job_name == job_schema.keys[idx]
           job_config == job_schema.jobs[job_name]
       IN  IF Contains("image", job_name) THEN
               \E o \in Outcomes(job_name) :
                  /\ calls' = Append(calls, [job |-> job_name, model |-> job_config.model,
                                             input |-> job_config.input])
                  /\ outs' = Append(outs, [job |-> job_name, raises |-> o.raises,
                                           value |-> o.value])
                  /\ IF ~o.raises /\ Truthy(o.value) THEN
                         /\ results' = [results EXCEPT !.images = Append(@,
                                [url |-> IF o.value.kind = "list" THEN o.value.items[1]
                                         ELSE ToStr(o.value),
                                 type |-> job_name,
                                 prompt |-> DictGet(job_config.input, "prompt", "")])]
                         /\ idx' = idx + 1
                         /\ pc' = pc
                     ELSE UNCHANGED <<results, idx, pc>>
           ELSE /\ UNCHANGED <<calls, outs, results>>
                /\ IF idx < Len(job_schema.keys)
                   THEN idx' = idx + 1 /\ pc' = pc
                   ELSE idx' = 0 /\ pc' = "mode_video"
    /\ UNCHANGED <<op, request, args, studio_modes, briefs, current_mode, job_schema,
                   files, saves, pages, enhanced, use_claude, ret, raised>>

\* one iteration of `for job_name, job_config in job_schema['jobs'].items()`
ModeImageStep ==
    /\ pc = "mode_images"
    /\ LET job_name == job_schema.keys[idx]
           job_config == job_schema.jobs[job_name]
       IN  IF Contains("image", job_name) THEN
               \E o \in Outcomes(job_name) :
                  /\ calls' = Append(calls, [job |-> job_name, model |-> job_config.model,
                                             input |-> job_config.input])
                  /\ outs' = Append(outs, [job |-> job_name, raises |-> o.raises,
                                           value |-> o.value])
                  /\ IF ~o.raises /\ Truthy(o.value) THEN
                         results' = [results EXCEPT !.images = Append(@,
                             [url |-> IF o.value.kind = "list" THEN o.value.items[1]
                                      ELSE ToStr(o.value),
                              type |-> job_name,
                              prompt |-> DictGet(job_config.input, "prompt", "")])]
                     ELSE UNCHANGED results
           ELSE UNCHANGED <<calls, outs, results>>
    /\ IF idx < Len(job_schema.keys)
       THEN idx' = idx + 1 /\ pc' = pc
       ELSE idx' = 0 /\ pc' = "mode_video"
    /\ UNCHANGED <<op, request, args, studio_modes, briefs, current_mode, job_schema,
                   files, saves, pages, enhanced, use_claude, ret, raised>>

\* a video step that puts the hero image into the job whatever its model
ModeVideoStep_always_fill ==
    /\ pc = "mode_video"
    /\ IF args.include_video /\ "hero_video" \in DOMAIN job_schema.jobs THEN
           LET video_job == job_schema.jobs["hero_video"]
               fill == Len(results.images) > 0
               input == IF fill
                        THEN DictSet(video_job.input, "input_image", results.images[1].url)
                        ELSE video_job.input
           IN  /\ job_schema' = [job_schema EXCEPT !.jobs["hero_video"].input = input]
               /\ \E o \in Outcomes("hero_video") :
                     /\ calls' = Append(calls, [job |-> "hero_video",
                                                model |-> video_job.model, input |-> input])
                     /\ outs' = Append(outs, [job |-> "hero_video", raises |-> o.raises,
                                              value |-> o.value])
                     /\ IF ~o.raises /\ Truthy(o.value)
                        THEN results' = [results EXCEPT !.video = ToStr(o.value)]
                        ELSE UNCHANGED results
       ELSE UNCHANGED <<job_schema, calls, outs, results>>
    /\ pc' = "mode_audio"
    /\ UNCHANGED <<op, request, args, studio_modes, briefs, current_mode, idx,
                   files, saves, pages, enhanced, use_claude, ret, raised>>

\* a video invocation started while the image loop has not begun
ModeVideoStep_before_images ==
    /\ pc = "mode_images"
    /\ idx = 1
    /\ args.include_video /\ "hero_video" \in DOMAIN job_schema.jobs
    /\ LET video_job == job_schema.jobs["hero_video"]
       IN  \E o \in Outcomes("hero_video") :
              /\ calls' = Append(calls, [job |-> "hero_video",
                                         model |-> video_job.model,
                                         input |-> video_job.input])
              /\ outs' = Append(outs, [job |-> "hero_video", raises |-> o.raises,
                                       value |-> o.value])
              /\ IF ~o.raises /\ Truthy(o.value)
                 THEN results' = [results EXCEPT !.video = ToStr(o.value)]
                 ELSE UNCHANGED results
    /\ UNCHANGED <<pc, op, request, args, studio_modes, briefs, current_mode, job_schema,
                   idx, files, saves, pages, enhanced, use_claude, ret, raised>>

\* lines 386-405
ModeVideoStep ==
    /\ pc = "mode_video"
    /\ IF args.include_video /\ "hero_video" \in DOMAIN job_schema.jobs THEN
           LET video_job == job_schema.jobs["hero_video"]
               fill == Contains("svd", video_job.model) /\ Len(results.images) > 0
               input == IF fill
                        THEN DictSet(video_job.input, "input_image", results.images[1].url)
                        ELSE video_job.input
           IN  /\ job_schema' = [job_schema EXCEPT !.jobs["hero_video"].input = input]
               /\ \E o \in Outcomes("hero_video") :
                     /\ calls' = Append(calls, [job |-> "hero_video",
                                                model |-> video_job.model, input |-> input])
                     /\ outs' = Append(outs, [job |-> "hero_video", raises |-> o.raises,
                                              value |-> o.value])
                     /\ IF ~o.raises /\ Truthy(o.value)
                        THEN results' = [results EXCEPT !.video = ToStr(o.value)]
                        ELSE UNCHANGED results
       ELSE UNCHANGED <<job_schema, calls, outs, results>>
    /\ pc' = "mode_audio"
    /\ UNCHANGED <<op, request, args, studio_modes, briefs, current_mode, idx,
                   files, saves, pages, enhanced, use_claude, ret, raised>>

\* an audio step that lets the exception of the invocation out of the run
ModeAudioStep_uncaught ==
    /\ pc = "mode_audio"
    /\ IF "soundtrack" \in DOMAIN job_schema.jobs THEN
           LET audio_job == job_schema.jobs["soundtrack"]
           IN  \E o \in Outcomes("soundtrack") :
                  /\ calls' = Append(calls, [job |-> "soundtrack",
                                             model |-> audio_job.model,
                                             input |-> audio_job.input])
                  /\ outs' = Append(outs, [job |-> "soundtrack", raises |-> o.raises,
                                           value |-> o.value])
                  /\ IF ~o.raises /\ Truthy(o.value)
                     THEN results' = [results EXCEPT !.audio = ToStr(o.value)]
                     ELSE UNCHANGED results
                  /\ IF o.raises
                     THEN raised' = "Exception" /\ pc' = "done"
                     ELSE raised' = raised /\ pc' = "mode_save"
       ELSE UNCHANGED <<calls, outs, results, raised>> /\ pc' = "mode_save"
    /\ UNCHANGED <<op, request, args, studio_modes, briefs, current_mode, job_schema, idx,
                   files, saves, pages, enhanced, use_claude, ret>>

\* lines 407-421
ModeAudioStep ==
    /\ pc = "mode_audio"
    /\ IF "soundtrack" \in DOMAIN job_schema.jobs THEN
           LET audio_job == job_schema.jobs["soundtrack"]
           IN  \E o \in Outcomes("soundtrack") :
                  /\ calls' = Append(calls, [job |-> "soundtrack",
                                             model |-> audio_job.model,
                                             input |-> audio_job.input])
                  /\ outs' = Append(outs, [job |-> "soundtrack", raises |-> o.raises,
                                           value |-> o.value])
                  /\ IF ~o.raises /\ Truthy(o.value)
                     THEN results' = [results EXCEPT !.audio = ToStr(o.value)]
                     ELSE UNCHANGED results
       ELSE UNCHANGED <<calls, outs, results>>
    /\ pc' = "mode_save"
    /\ UNCHANGED <<op, request, args, studio_modes, briefs, current_mode, job_schema, idx,
                   files, saves, pages, enhanced, use_claude, ret, raised>>

(***************************************************************************)
(* The metadata file.  json.dump writes None as null and a str as a JSON   *)
(* string and raises TypeError on any other asset value; json.load maps    *)
(* them back.                                                              *)
(***************************************************************************)
JsonSerializable(v) == v.kind \in {"none", "str"}

\* a dump that writes str(None) for a missing reference
JsonDump_str_of_none(v) == [json |-> "string", text |-> ToStr(v).v]

JsonDump(v) ==
    IF v.kind = "none" THEN [json |-> "null"] ELSE [json |-> "string", text |-> v.v]

JsonLoad(j) == IF j.json = "null" THEN PyNone ELSE PyStr(j.text)

Min(a, b) == IF a < b THEN a ELSE b

\* CreativeEnhancer._generate_page_with_template
generate_page_with_template(data) ==
    LET imgs == DictGet(data, "images", <<>>)
    IN  [title |-> DictGet(data, "brief_name", "Campaign"),
         heading |-> DictGet(data, "brief_name", "AI Campaign"),
         badges |-> [model |-> DictGet(data, "model", "FLUX"),
                     quality |-> DictGet(data, "quality", "Premium"),
                     timestamp |-> IF "timestamp" \in DOMAIN data
                                   THEN ToString(data.timestamp) ELSE ""],
         brief_type |-> IF "brief_type" \in DOMAIN data
                        THEN ToStr(data.brief_type).v ELSE "Custom",
         gallery |-> [i \in 1..Len(imgs) |->
                        [src |-> DictGet(imgs[i], "url", PyStr("")),
                         alt |-> SubSeq(DictGet(imgs[i], "prompt", ""), 1,
                                        Min(50, Len(DictGet(imgs[i], "prompt", ""))))]],
         video |-> IF Truthy(DictGet(data, "video", PyNone))
                   THEN data.video ELSE PyNone]

\* CreativeEnhancer.generate_landing_page
generate_landing_page(claude, campaign_data) ==
    IF claude THEN generate_page_with_template(EmptyMap)
    ELSE generate_page_with_template(campaign_data)

\* the record json.load returns for a file json.dump wrote
LoadMetadata(file) ==
    [x \in DOMAIN file |->
        IF x = "images" THEN [i \in 1..Len(file.images) |->
                                 [file.images[i] EXCEPT !.url = JsonLoad(@)]]
        ELSE IF x \in {"video", "audio"} THEN JsonLoad(file[x])
        ELSE file[x]]

ModeCampaignDir(mode_name, product_name, ts) ==
    mode_name \o "_" \o product_name \o "_" \o ToString(ts)

\* _save_mode_campaign swallowing the error of a failed write
ModeSave_masked ==
    /\ pc = "mode_save"
    /\ LET dir == ModeCampaignDir(results.mode, results.product, results.timestamp)
       IN  /\ files' = DictSet(files, dir, [complete |-> FALSE])
           /\ pc' = "mode_landing"
    /\ UNCHANGED <<op, request, args, studio_modes, briefs, current_mode, job_schema,
                   results, idx, calls, outs, pages, enhanced, use_claude, ret, raised,
                   saves>>

\* _save_mode_campaign, called at line 424
ModeSave ==
    /\ pc = "mode_save"
    /\ LET dir == ModeCampaignDir(results.mode, results.product, results.timestamp)
           serializable == /\ \A i \in 1..Len(results.images) :
                                 JsonSerializable(results.images[i].url)
                           /\ JsonSerializable(results.video)
                           /\ JsonSerializable(results.audio)
       IN  \E io_ok \in BOOLEAN :
              IF ~io_ok THEN
                  /\ raised' = "OSError"
                  /\ pc' = "done"
                  /\ UNCHANGED <<files, saves>>
              ELSE IF ~serializable THEN
                  /\ raised' = "TypeError"
                  /\ pc' = "done"
                  /\ files' = DictSet(files, dir, [complete |-> FALSE])
                  /\ UNCHANGED saves
              ELSE
                  /\ files' = DictSet(files, dir,
                        [complete |-> TRUE,
                         mode |-> results.mode,
                         product |-> results.product,
                         description |-> results.description,
                         studio_inspiration |-> results.studio_inspiration,
                         images |-> [i \in 1..Len(results.images) |->
                                       [results.images[i] EXCEPT !.url = JsonDump(@)]],
                         video |-> JsonDump(results.video),
                         audio |-> JsonDump(results.audio),
                         timestamp |-> results.timestamp,
                         mode_config |-> [name |-> current_mode.name,
                                          description |-> current_mode.description,
                                          studio_inspiration |-> current_mode.studio_inspiration,
                                          color_palette |-> current_mode.color_palette,
                                          preferred_models |-> current_mode.preferred_models]])
                  /\ saves' = saves + 1
                  /\ pc' = "mode_landing"
                  /\ UNCHANGED raised
    /\ UNCHANGED <<op, request, args, studio_modes, briefs, current_mode, job_schema,
                   results, idx, calls, outs, pages, enhanced, use_claude, ret>>

\* the end of the run rendering the page whether or not it was asked for
ModeFinish_always_page ==
    /\ pc = "mode_landing"
    /\ LET dir == ModeCampaignDir(args.mode.v, args.product_name.v, results.timestamp)
           campaign_data == LoadMetadata(files[dir])
           landing_path == dir \o "/index.html"
       IN  /\ pages' = DictSet(pages, landing_path,
                               generate_landing_page(FALSE, campaign_data))
           /\ results' = DictSet(results, "landing_page", PyStr(landing_path))
    /\ ret' = results'
    /\ pc' = "done"
    /\ UNCHANGED <<op, request, args, studio_modes, briefs, current_mode, job_schema,
                   idx, calls, outs, files, saves, enhanced, use_claude, raised>>

\* lines 426-445
ModeFinish ==
    /\ pc = "mode_landing"
    /\ IF args.generate_landing THEN
           LET dir == ModeCampaignDir(args.mode.v, args.product_name.v, results.timestamp)
               campaign_data == LoadMetadata(files[dir])
               landing_path == dir \o "/index.html"
           IN  /\ pages' = DictSet(pages, landing_path,
                                   generate_landing_page(FALSE, campaign_data))
               /\ results' = DictSet(results, "landing_page", PyStr(landing_path))
       ELSE UNCHANGED <<pages, results>>
    /\ ret' = results'
    /\ pc' = "done"
    /\ UNCHANGED <<op, request, args, studio_modes, briefs, current_mode, job_schema,
                   idx, calls, outs, files, saves, enhanced, use_claude, raised>>

(***************************************************************************)
(* CreativeEnhancer.enhance_prompt and its helpers.                        *)
(***************************************************************************)
EnhancementPrompt(original_prompt, style) ==
    "\n        Enhance this creative prompt for AI image generation.\n        Original: "
        \o original_prompt \o "\n        Style: " \o style
        \o "\n\n        Add rich visual details, lighting, composition, and atmosphere.\n"
        \o "        Keep it under 150 words. Return only the enhanced prompt.\n        "

rule_based_enhancement(prompt) ==
    prompt \o ", " \o "masterpiece quality, highly detailed, professional photography, "
           \o "golden hour lighting, 8k resolution"

enhance_with_claude(prompt) == PyStr("[Enhanced via Claude]: " \o prompt)

RECURSIVE JoinStrs(_)
JoinStrs(xs) == IF Len(xs) = 0 THEN "" ELSE xs[1].v \o JoinStrs(Tail(xs))

\* what _enhance_with_replicate_llm returns for the outcome o of its replicate.run
enhance_with_replicate_llm(prompt, o) ==
    IF o.raises THEN PyStr(rule_based_enhancement(prompt))
    ELSE IF Truthy(o.value) THEN
        IF o.value.kind = "list" THEN
            IF \A i \in 1..Len(o.value.items) : IsStr(o.value.items[i])
            THEN PyStr(JoinStrs(o.value.items))
            ELSE PyStr(rule_based_enhancement(prompt))
        ELSE ToStr(o.value)
    ELSE PyNone

llm_model == "meta/meta-llama-3-70b-instruct"

LlmOutcomes ==
    {[raises |-> TRUE, value |-> PyNone], [raises |-> FALSE, value |-> PyNone],
     [raises |-> FALSE, value |-> PyStr("a richly lit scene")],
     [raises |-> FALSE, value |-> PyList(<<PyStr("a richly "), PyStr("lit scene")>>)]}

(***************************************************************************)
(* create_campaign, the legacy brief path: lines 154-324.                  *)
(***************************************************************************)
\* an enhancement loop that keeps the enhanced prompts to itself (line 164 left out)
LegacyEnhanceStep_own_list ==
    /\ pc = "legacy_enhance"
    /\ LET brief == briefs.at[BriefKey(args)]
           p == brief.prompts[idx]
           ep == EnhancementPrompt(p, "cinematic")
           Finish(e) ==
               IF e = PyNone THEN
                   /\ raised' = "TypeError"
                   /\ pc' = "done"
                   /\ UNCHANGED <<enhanced, briefs, idx>>
               ELSE
                   /\ UNCHANGED raised
                   /\ IF idx < Len(brief.prompts) THEN
                          /\ enhanced' = Append(enhanced, e.v)
                          /\ idx' = idx + 1
                          /\ pc' = pc
                          /\ UNCHANGED briefs
                      ELSE
                          /\ enhanced' = <<>>
                          /\ UNCHANGED briefs
                          /\ idx' = 1
                          /\ pc' = "legacy_images"
       IN  IF use_claude THEN
               /\ Finish(enhance_with_claude(ep))
               /\ UNCHANGED <<calls, outs>>
           ELSE
               \E o \in LlmOutcomes :
                  /\ calls' = Append(calls, [job |-> "enhance_" \o ToString(idx),
                                             model |-> llm_model,
                                             input |-> [prompt |-> ep, max_new_tokens |-> 200,
                                                        temperature |-> PyFloat("0.8")]])
                  /\ outs' = Append(outs, [job |-> "enhance_" \o ToString(idx),
                                           raises |-> o.raises, value |-> o.value])
                  /\ Finish(enhance_with_replicate_llm(ep, o))
    /\ UNCHANGED <<op, request, args, studio_modes, current_mode, job_schema, results,
                   files, saves, pages, use_claude, ret>>

\* one iteration of `for p in brief['prompts']`, and line 164 after the last
LegacyEnhanceStep ==
    /\ pc = "legacy_enhance"
    /\ LET brief == briefs.at[BriefKey(args)]
           p == brief.prompts[idx]
           ep == EnhancementPrompt(p, "cinematic")
           Finish(e) ==
               IF e = PyNone THEN
                   /\ raised' = "TypeError"
                   /\ pc' = "done"
                   /\ UNCHANGED <<enhanced, briefs, idx>>
               ELSE
                   /\ UNCHANGED raised
                   /\ IF idx < Len(brief.prompts) THEN
                          /\ enhanced' = Append(enhanced, e.v)
                          /\ idx' = idx + 1
                          /\ pc' = pc
                          /\ UNCHANGED briefs
                      ELSE
                          /\ enhanced' = <<>>
                          /\ briefs' = [briefs EXCEPT !.at[BriefKey(args)].prompts =
                                                          Append(enhanced, e.v)]
                          /\ idx' = 1
                          /\ pc' = "legacy_images"
       IN  IF use_claude THEN
               /\ Finish(enhance_with_claude(ep))
               /\ UNCHANGED <<calls, outs>>
           ELSE
               \E o \in LlmOutcomes :
                  /\ calls' = Append(calls, [job |-> "enhance_" \o ToString(idx),
                                             model |-> llm_model,
                                             input |-> [prompt |-> ep, max_new_tokens |-> 200,
                                                        temperature |-> PyFloat("0.8")]])
                  /\ outs' = Append(outs, [job |-> "enhance_" \o ToString(idx),
                                           raises |-> o.raises, value |-> o.value])
                  /\ Finish(enhance_with_replicate_llm(ep, o))
    /\ UNCHANGED <<op, request, args, studio_modes, current_mode, job_schema, results,
                   files, saves, pages, use_claude, ret>>

\* an image loop numbering its records by the count of successes
LegacyImageStep_success_count ==
    /\ pc = "legacy_images"
    /\ LET brief == briefs.at[BriefKey(args)]
           prompt == brief.prompts[idx]
           image_model == ImageModel(args)
           quality_settings == QualitySettings(args)
           job == "image_" \o ToString(idx)
           input_params ==
               IF Contains("flux", image_model) THEN
                   [prompt |-> prompt \o ", professional quality, high detail",
                    num_outputs |-> 1,
                    aspect_ratio |-> "1:1",
                    output_format |-> "png",
                    output_quality |-> 95]
               ELSE
                   [prompt |-> prompt \o ", professional quality, commercial use",
                    negative_prompt |-> "amateur, low quality, watermark, blurry",
                    width |-> 1024,
                    height |-> 1024,
                    num_outputs |-> 1,
                    num_inference_steps |-> quality_settings.steps,
                    guidance_scale |-> quality_settings.guidance]
       IN  IF image_model \notin DOMAIN models THEN
               UNCHANGED <<calls, outs, results>>
           ELSE
               \E o \in Outcomes(job) :
                  /\ calls' = Append(calls, [job |-> job, model |-> models[image_model],
                                             input |-> input_params])
                  /\ outs' = Append(outs, [job |-> job, raises |-> o.raises,
                                           value |-> o.value])
                  /\ IF ~o.raises /\ Truthy(o.value) THEN
                         LET url == IF o.value.kind = "list" THEN o.value.items[1]
                                    ELSE IF o.value.kind = "obj" THEN PyStr(o.value.url)
                                    ELSE o.value
                         IN  results' = [results EXCEPT !.images = Append(@,
                                 [url |-> IF IsStr(url) THEN url ELSE ToStr(url),
                                  prompt |-> prompt,
                                  index |-> Len(results.images) + 1])]
                     ELSE UNCHANGED results
    /\ IF idx < Len(briefs.at[BriefKey(args)].prompts)
       THEN idx' = idx + 1 /\ pc' = pc
       ELSE idx' = 0 /\ pc' = "legacy_video"
    /\ UNCHANGED <<op, request, args, studio_modes, briefs, current_mode, job_schema,
                   files, saves, pages, enhanced, use_claude, ret, raised>>

\* one iteration of `for i, prompt in enumerate(brief['prompts'], 1)`, lines 168-219
LegacyImageStep ==
    /\ pc = "legacy_images"
    /\ LET brief == briefs.at[BriefKey(args)]
           prompt == brief.prompts[idx]
           image_model == ImageModel(args)
           quality_settings == QualitySettings(args)
           job == "image_" \o ToString(idx)
           input_params ==
               IF Contains("flux", image_model) THEN
                   [prompt |-> prompt \o ", professional quality, high detail",
                    num_outputs |-> 1,
                    aspect_ratio |-> "1:1",
                    output_format |-> "png",
                    output_quality |-> 95]
               ELSE
                   [prompt |-> prompt \o ", professional quality, commercial use",
                    negative_prompt |-> "amateur, low quality, watermark, blurry",
                    width |-> 1024,
                    height |-> 1024,
                    num_outputs |-> 1,
                    num_inference_steps |-> quality_settings.steps,
                    guidance_scale |-> quality_settings.guidance]
       IN  IF image_model \notin DOMAIN models THEN
               UNCHANGED <<calls, outs, results>>
           ELSE
               \E o \in Outcomes(job) :
                  /\ calls' = Append(calls, [job |-> job, model |-> models[image_model],
                                             input |-> input_params])
                  /\ outs' = Append(outs, [job |-> job, raises |-> o.raises,
                                           value |-> o.value])
                  /\ IF ~o.raises /\ Truthy(o.value) THEN
                         LET url == IF o.value.kind = "list" THEN o.value.items[1]
                                    ELSE IF o.value.kind = "obj" THEN PyStr(o.value.url)
                                    ELSE o.value
                         IN  results' = [results EXCEPT !.images = Append(@,
                                 [url |-> IF IsStr(url) THEN url ELSE ToStr(url),
                                  prompt |-> prompt,
                                  index |-> idx])]
                     ELSE UNCHANGED results
    /\ IF idx < Len(briefs.at[BriefKey(args)].prompts)
       THEN idx' = idx + 1 /\ pc' = pc
       ELSE idx' = 0 /\ pc' = "legacy_video"
    /\ UNCHANGED <<op, request, args, studio_modes, briefs, current_mode, job_schema,
                   files, saves, pages, enhanced, use_claude, ret, raised>>

\* a video step that animates the last image generated instead of the first
LegacyVideoStep_last_image ==
    /\ pc = "legacy_video"
    /\ LET brief == briefs.at[BriefKey(args)]
           Run(model, input) ==
               \E o \in Outcomes("video") :
                  /\ calls' = Append(calls, [job |-> "video", model |-> model,
                                             input |-> input])
                  /\ outs' = Append(outs, [job |-> "video", raises |-> o.raises,
                                           value |-> o.value])
                  /\ IF ~o.raises /\ Truthy(o.value) THEN
                         results' = [results EXCEPT !.video =
                             IF o.value.kind = "obj" THEN PyStr(o.value.url)
                             ELSE IF IsStr(o.value) THEN o.value
                             ELSE ToStr(o.value)]
                     ELSE UNCHANGED results
       IN  IF ~args.include_video THEN
               UNCHANGED <<calls, outs, results>>
           ELSE IF args.video_type = "text2video" THEN
               Run(models["cogvideox"],
                   [prompt |-> brief.prompts[1] \o ", high quality video, smooth motion",
                    num_frames |-> 49,
                    guidance_scale |-> 7,
                    num_inference_steps |-> IF args.quality = "premium" THEN 50 ELSE 25])
           ELSE IF args.video_type = "zeroscope" THEN
               Run(models["zeroscope"],
                   [prompt |-> brief.prompts[1] \o ", cinematic",
                    width |-> 1024,
                    height |-> 576,
                    num_frames |-> 24,
                    fps |-> 8])
           ELSE IF Len(results.images) = 0 THEN
               UNCHANGED <<calls, outs, results>>
           ELSE
               Run(models[default_video],
                   [input_image |-> results.images[Len(results.images)].url,
                    video_length |-> "14_frames",
                    sizing_strategy |-> "maintain_aspect_ratio",
                    frames_per_second |-> 7,
                    motion_bucket_id |-> 127])
    /\ pc' = "legacy_audio"
    /\ UNCHANGED <<op, request, args, studio_modes, briefs, current_mode, job_schema, idx,
                   files, saves, pages, enhanced, use_claude, ret, raised>>

\* a video step that does not look at include_video
LegacyVideoStep_unasked ==
    /\ pc = "legacy_video"
    /\ LET brief == briefs.at[BriefKey(args)]
           Run(model, input) ==
               \E o \in Outcomes("video") :
                  /\ calls' = Append(calls, [job |-> "video", model |-> model,
                                             input |-> input])
                  /\ outs' = Append(outs, [job |-> "video", raises |-> o.raises,
                                           value |-> o.value])
                  /\ IF ~o.raises /\ Truthy(o.value) THEN
                         results' = [results EXCEPT !.video =
                             IF o.value.kind = "obj" THEN PyStr(o.value.url)
                             ELSE IF IsStr(o.value) THEN o.value
                             ELSE ToStr(o.value)]
                     ELSE UNCHANGED results
       IN  IF args.video_type = "text2video" THEN
               Run(models["cogvideox"],
                   [prompt |-> brief.prompts[1] \o ", high quality video, smooth motion",
                    num_frames |-> 49,
                    guidance_scale |-> 7,
                    num_inference_steps |-> IF args.quality = "premium" THEN 50 ELSE 25])
           ELSE IF args.video_type = "zeroscope" THEN
               Run(models["zeroscope"],
                   [prompt |-> brief.prompts[1] \o ", cinematic",
                    width |-> 1024,
                    height |-> 576,
                    num_frames |-> 24,
                    fps |-> 8])
           ELSE IF Len(results.images) = 0 THEN
               UNCHANGED <<calls, outs, results>>
           ELSE
               Run(models[default_video],
                   [input_image |-> results.images[1].url,
                    video_length |-> "14_frames",
                    sizing_strategy |-> "maintain_aspect_ratio",
                    frames_per_second |-> 7,
                    motion_bucket_id |-> 127])
    /\ pc' = "legacy_audio"
    /\ UNCHANGED <<op, request, args, studio_modes, briefs, current_mode, job_schema, idx,
                   files, saves, pages, enhanced, use_claude, ret, raised>>

\* lines 221-280
LegacyVideoStep ==
    /\ pc = "legacy_video"
    /\ LET brief == briefs.at[BriefKey(args)]
           Run(model, input) ==
               \E o \in Outcomes("video") :
                  /\ calls' = Append(calls, [job |-> "video", model |-> model,
                                             input |-> input])
                  /\ outs' = Append(outs, [job |-> "video", raises |-> o.raises,
                                           value |-> o.value])
                  /\ IF ~o.raises /\ Truthy(o.value) THEN
                         results' = [results EXCEPT !.video =
                             IF o.value.kind = "obj" THEN PyStr(o.value.url)
                             ELSE IF IsStr(o.value) THEN o.value
                             ELSE ToStr(o.value)]
                     ELSE UNCHANGED results
       IN  IF ~args.include_video THEN
               UNCHANGED <<calls, outs, results>>
           ELSE IF args.video_type = "text2video" THEN
               Run(models["cogvideox"],
                   [prompt |-> brief.prompts[1] \o ", high quality video, smooth motion",
                    num_frames |-> 49,
                    guidance_scale |-> 7,
                    num_inference_steps |-> IF args.quality = "premium" THEN 50 ELSE 25])
           ELSE IF args.video_type = "zeroscope" THEN
               Run(models["zeroscope"],
                   [prompt |-> brief.prompts[1] \o ", cinematic",
                    width |-> 1024,
                    height |-> 576,
                    num_frames |-> 24,
                    fps |-> 8])
           ELSE IF Len(results.images) = 0 THEN
               UNCHANGED <<calls, outs, results>>
           ELSE
               Run(models[default_video],
                   [input_image |-> results.images[1].url,
                    video_length |-> "14_frames",
                    sizing_strategy |-> "maintain_aspect_ratio",
                    frames_per_second |-> 7,
                    motion_bucket_id |-> 127])
    /\ pc' = "legacy_audio"
    /\ UNCHANGED <<op, request, args, studio_modes, briefs, current_mode, job_schema, idx,
                   files, saves, pages, enhanced, use_claude, ret, raised>>

\* riffusion answers with a dict; the other shapes are what any model may answer
AudioOutcomes ==
    Outcomes("audio")
        \cup {[raises |-> FALSE, value |-> PyDict([audio |-> PyStr(AssetUrl("audio"))])],
              [raises |-> FALSE, value |-> PyDict([audio |-> PyObj(AssetUrl("audio"))])],
              [raises |-> FALSE, value |-> PyDict([spectrogram |-> PyObj(AssetUrl("audio"))])]}

\* lines 282-299
LegacyAudioStep ==
    /\ pc = "legacy_audio"
    /\ \E o \in AudioOutcomes :
          /\ calls' = Append(calls, [job |-> "audio", model |-> models[default_audio],
                                     input |-> [prompt_a |-> briefs.at[BriefKey(args)].audio,
                                                denoising |-> PyFloat("0.75"),
                                                seed_image_id |-> "vibes"]])
          /\ outs' = Append(outs, [job |-> "audio", raises |-> o.raises, value |-> o.value])
          /\ IF ~o.raises /\ Truthy(o.value) /\ o.value.kind = "dict"
             THEN results' = [results EXCEPT !.audio = DictGet(o.value.map, "audio", PyNone)]
             ELSE UNCHANGED results
    /\ pc' = "legacy_save"
    /\ UNCHANGED <<op, request, args, studio_modes, briefs, current_mode, job_schema, idx,
                   files, saves, pages, enhanced, use_claude, ret, raised>>

\* f"{x}" of an optional string argument
Fmt(v) == ToStr(v).v

LegacyCampaignDir(brief_type, ts) == Fmt(brief_type) \o "_" \o ToString(ts)

\* _save_campaign, called at line 302
LegacySave ==
    /\ pc = "legacy_save"
    /\ LET dir == LegacyCampaignDir(results.brief_type, results.timestamp)
           brief == briefs.at[BriefKey(args)]
       IN  \E io_ok \in BOOLEAN :
              IF ~io_ok THEN
                  /\ raised' = "OSError"
                  /\ pc' = "done"
                  /\ UNCHANGED <<files, saves>>
              ELSE
                  /\ files' = DictSet(files, dir,
                        [complete |-> TRUE,
                         brief_type |-> results.brief_type,
                         brief_name |-> brief.name,
                         quality |-> results.quality,
                         model |-> results.model,
                         timestamp |-> results.timestamp,
                         images |-> [i \in 1..Len(results.images) |->
                                       [results.images[i] EXCEPT !.url = JsonDump(ToStr(@))]],
                         video |-> IF Truthy(results.video)
                                   THEN JsonDump(ToStr(results.video)) ELSE JsonDump(PyNone),
                         audio |-> IF Truthy(results.audio)
                                   THEN JsonDump(ToStr(results.audio)) ELSE JsonDump(PyNone)])
                  /\ saves' = saves + 1
                  /\ pc' = "legacy_landing"
                  /\ UNCHANGED raised
    /\ UNCHANGED <<op, request, args, studio_modes, briefs, current_mode, job_schema,
                   results, idx, calls, outs, pages, enhanced, use_claude, ret>>

\* lines 304-324
LegacyFinish ==
    /\ pc = "legacy_landing"
    /\ IF args.generate_landing THEN
           LET dir == LegacyCampaignDir(results.brief_type, results.timestamp)
               campaign_data == LoadMetadata(files[dir])
               landing_path == dir \o "/index.html"
           IN  /\ pages' = DictSet(pages, landing_path,
                                   generate_landing_page(use_claude, campaign_data))
               /\ results' = DictSet(results, "landing_page", PyStr(landing_path))
       ELSE UNCHANGED <<pages, results>>
    /\ ret' = results'
    /\ pc' = "done"
    /\ UNCHANGED <<op, request, args, studio_modes, briefs, current_mode, job_schema,
                   idx, calls, outs, files, saves, enhanced, use_claude, raised>>

(***************************************************************************)
(* The requests a caller makes and the specification.                      *)
(***************************************************************************)
VideoTypeInputs == {"image2video", "text2video", "zeroscope"}
ImageModelInputs == {PyNone, PyStr("sdxl"), PyStr("dalle")}

LegacyRequests ==
    {[DefaultArgs EXCEPT !.brief_type = PyStr("social_campaign"), !.include_video = TRUE,
                         !.video_type = vt] : vt \in VideoTypeInputs}
        \cup {[DefaultArgs EXCEPT !.image_model = im, !.quality = q] :
                 im \in ImageModelInputs, q \in {"premium", "ultra"}}
        \cup {[DefaultArgs EXCEPT !.brief_type = b, !.generate_landing = g] :
                 b \in {PyNone, PyStr("brand_story"), PyStr("side_quest")}, g \in BOOLEAN}
        \cup {[DefaultArgs EXCEPT !.brief_type = PyStr("educational_content"),
                                  !.enhance_prompts = TRUE]}
        \cup {[DefaultArgs EXCEPT !.mode = PyStr("parallax_nocturne"), !.product_name = pn] :
                 pn \in {PyNone, PyStr("")}}

Requests == StudioRequests \cup LegacyRequests

Next ==
    \/ \E m \in ModeNameInputs : CallGetMode(m)
    \/ CallListModes
    \/ \E m \in ModeNameInputs : CallGetModeInfo(m)
    \/ \E m \in ModeNameInputs, p \in SchemaProductInputs, d \in DescriptionInputs :
          CallCreateJobSchema(m, p, d)
    \/ \E a \in Requests : CreateCampaign(a)
    \/ ModeImageStep
    \/ ModeVideoStep
    \/ ModeAudioStep
    \/ ModeSave
    \/ ModeFinish
    \/ LegacyEnhanceStep
    \/ LegacyImageStep
    \/ LegacyVideoStep
    \/ LegacyAudioStep
    \/ LegacySave
    \/ LegacyFinish

Spec == Init /\ [][Next]_vars

(***************************************************************************)
(* Properties.                                                             *)
(***************************************************************************)
ImageJobNames == <<"hero_image", "detail_shot", "lifestyle_shot">>

KnownMode(m) == m \in DOMAIN InitializeModes.at

\* a schema has just been returned by a direct call of create_job_schema
SchemaReturned == op = "create_job_schema" /\ pc = "done" /\ raised = "none"

\* the studio-mode run is past its image loop
ModeLoopDone ==
    IsModeRun /\ pc \in {"mode_video", "mode_audio", "mode_save", "mode_landing", "done"}

\* the studio-mode run is past its video step
ModeVideoDone == IsModeRun /\ pc \in {"mode_audio", "mode_save", "mode_landing", "done"}

\* the studio-mode run is past its last job
ModeJobsDone == IsModeRun /\ pc \in {"mode_save", "mode_landing", "done"}

JobsCalled == [i \in 1..Len(calls) |-> calls[i].job]

IsImageJob(j) == j \in Range(ImageJobNames)

Succeeded(o) == ~o.raises /\ Truthy(o.value)

SucceededJob(j) == \E i \in 1..Len(outs) : outs[i].job = j /\ Succeeded(outs[i])

\* C1: in a studio-mode run the three image jobs hero_image, detail_shot and
\* lifestyle_shot are each invoked exactly once, in that order, and the images list
\* holds one record per image job whose invocation returned a truthy value, typed
\* with the job's name, in the same order.
C1_ImageJobsRunInOrder ==
    ModeLoopDone =>
        /\ SelectSeq(JobsCalled, IsImageJob) = ImageJobNames
        /\ [i \in 1..Len(results.images) |-> results.images[i].type]
              = SelectSeq(ImageJobNames, SucceededJob)

\* C2: in a studio-mode run with video requested every job of the schema has been
\* attempted once the run is past its last job, whatever failed before, and every
\* job whose invocation succeeded is listed in the result.
C2_FailureNeverSkipsOtherJobs ==
    (ModeJobsDone /\ args.include_video) =>
        /\ \A j \in Range(JobOrder) : \E i \in 1..Len(calls) : calls[i].job = j
        /\ \A j \in Range(ImageJobNames) :
              SucceededJob(j) => \E i \in 1..Len(results.images) : results.images[i].type = j
        /\ SucceededJob("hero_video") => results.video # PyNone
        /\ SucceededJob("soundtrack") => results.audio # PyNone

VideoCalls == SelectSeq(calls, LAMBDA c : c.job = "hero_video")

\* C3: in a studio-mode run with video requested for a mode whose video model is of
\* family svd, the video invocation carries the first successful image's reference as
\* input_image when an image job succeeded, and no video invocation is made when none
\* succeeded.
C3_VideoUsesFirstImageOrIsSkipped ==
    (ModeVideoDone /\ args.include_video
        /\ Contains("svd", current_mode.preferred_models["video"])) =>
        IF Len(results.images) > 0
        THEN /\ Len(VideoCalls) = 1
             /\ "input_image" \in DOMAIN VideoCalls[1].input
             /\ VideoCalls[1].input.input_image = results.images[1].url
        ELSE Len(VideoCalls) = 0

WellFormedJob(job) == Len(job.model) > 0 /\ DOMAIN job.input # {}

\* C4: for every catalog mode, product name and description create_job_schema returns
\* a schema whose jobs are exactly hero_image, detail_shot, lifestyle_shot, hero_video
\* and soundtrack, each with a non-empty model identifier and a non-empty input map.
C4_FiveWellFormedJobs ==
    (op = "create_job_schema" /\ pc = "done" /\ KnownMode(request.mode.v)) =>
        /\ raised = "none"
        /\ ret # PyNone
        /\ DOMAIN ret.jobs = Range(JobOrder)
        /\ ret.keys = JobOrder
        /\ \A j \in DOMAIN ret.jobs : WellFormedJob(ret.jobs[j])

C4_Witness ==
    /\ SchemaReturned
    /\ request.mode.v = "soft_brutalism"
    /\ request.product_desc.v = ""
    /\ ret # PyNone

\* C5: create_job_schema with a mode name outside the catalog raises ValueError and
\* returns no schema, complete or partial.
C5_UnknownModeRaises ==
    (op = "create_job_schema" /\ pc = "done" /\ ~KnownMode(request.mode.v)) =>
        /\ raised = "ValueError"
        /\ ret = PyNone
        /\ job_schema = PyNone

C5_Witness ==
    /\ op = "create_job_schema"
    /\ pc = "done"
    /\ request.mode.v = UnknownModeName
    /\ raised = "ValueError"

PreferredImageModel == InitializeModes.at[job_schema.meta.mode].preferred_models["image"]

\* C6: the image jobs of a mode whose image model is of family flux have aspect_ratio
\* and output_quality and no negative_prompt; those of a mode whose image model is of
\* family seedream or ideogram have negative_prompt, width and height and no
\* aspect_ratio.
C6_ImageInputShape ==
    job_schema # PyNone =>
        \A j \in Range(ImageJobNames) :
            LET keys == DOMAIN job_schema.jobs[j].input
            IN  /\ Contains("flux", PreferredImageModel) =>
                      /\ {"aspect_ratio", "output_quality"} \subseteq keys
                      /\ "negative_prompt" \notin keys
                /\ (Contains("seedream", PreferredImageModel)
                        \/ Contains("ideogram", PreferredImageModel)) =>
                      /\ {"negative_prompt", "width", "height"} \subseteq keys
                      /\ "aspect_ratio" \notin keys

C6_Witness ==
    /\ SchemaReturned
    /\ request.mode.v = "webgl_dreams"
    /\ "aspect_ratio" \in DOMAIN ret.jobs["lifestyle_shot"].input

PreferredVideoModel == InitializeModes.at[request.mode.v].preferred_models["video"]

\* C7: the compiled hero_video job follows the family of the mode's video model:
\* cogvideox gives a text-to-video input for that model keyed on the reveal prompt, svd
\* gives a job for the svd model with an input_image field, any other family gives the
\* generic text-to-video fallback with width, height, num_frames and fps.
C7_VideoJobFollowsFamily ==
    SchemaReturned =>
        LET job == ret.jobs["hero_video"]
            reveal == request.product_name.v \o " cinematic reveal, " \o request.product_desc.v
        IN  IF Contains("cogvideox", PreferredVideoModel) THEN
                /\ job.model = PreferredVideoModel
                /\ "prompt" \in DOMAIN job.input
                /\ StartsWith(job.input.prompt, reveal)
            ELSE IF Contains("svd", PreferredVideoModel) THEN
                /\ job.model = PreferredVideoModel
                /\ "input_image" \in DOMAIN job.input
            ELSE
                /\ job.model = "anotherjesse/zeroscope-v2-xl"
                /\ {"prompt", "width", "height", "num_frames", "fps"} \subseteq DOMAIN job.input

StrOrNone(v) == v.kind \in {"str", "none"}

\* C8: every image url, the video reference and the audio reference held in the result
\* of a studio-mode or legacy run are strings, the last two null only when the job
\* failed or was not run.
C8_AssetsStoredAsStrings ==
    results # PyNone =>
        /\ \A i \in 1..Len(results.images) : IsStr(results.images[i].url)
        /\ StrOrNone(results.video)
        /\ StrOrNone(results.audio)
        /\ (SucceededJob("hero_video") \/ SucceededJob("video")) => IsStr(results.video)
        /\ (SucceededJob("soundtrack") \/ SucceededJob("audio")) => IsStr(results.audio)

\* C9: the model identifier of every compiled image job is the hosted-model identifier
\* the director's model table assigns to the mode's image model key, and that
\* identifier is what the runner passes to the remote invocation.
C9_ImageModelIsResolved ==
    job_schema # PyNone =>
        /\ \A j \in Range(ImageJobNames) :
              job_schema.jobs[j].model = models[PreferredImageModel]
        /\ \A i \in 1..Len(calls) :
              IsImageJob(calls[i].job) => calls[i].model = models[PreferredImageModel]

\* the mode, product name and description the schema in job_schema was compiled from
CompiledFrom == IF op = "create_job_schema" THEN request ELSE args

\* C10: the hero_image prompt is P + " product hero shot, " + D + ", " + prompt kernel;
\* the detail_shot and lifestyle_shot prompts start with P and their role text, contain
\* D and end with the prompt kernel.
C10_ImagePrompts ==
    job_schema # PyNone =>
        LET P == CompiledFrom.product_name.v
            D == CompiledFrom.product_desc.v
            kernel == InitializeModes.at[CompiledFrom.mode.v].prompt_kernel
            hero == job_schema.jobs["hero_image"].input.prompt
            detail == job_schema.jobs["detail_shot"].input.prompt
            lifestyle == job_schema.jobs["lifestyle_shot"].input.prompt
        IN  /\ hero = P \o " product hero shot, " \o D \o ", " \o kernel
            /\ StartsWith(hero, P \o " product hero shot, " \o D)
            /\ EndsWith(hero, kernel)
            /\ StartsWith(detail, P \o " detail close-up, premium product photography, ")
            /\ Contains(D, detail)
            /\ EndsWith(detail, ", " \o kernel)
            /\ StartsWith(lifestyle, P \o " in use, lifestyle photography, ")
            /\ Contains(D, lifestyle)
            /\ EndsWith(lifestyle, ", " \o kernel)

C10_Witness ==
    /\ SchemaReturned
    /\ request.mode.v = "parallax_nocturne"
    /\ request.product_name.v = "HaloOne"
    /\ request.product_desc.v = "wireless headphones"
    /\ StartsWith(ret.jobs["hero_image"].input.prompt,
                  "HaloOne product hero shot, wireless headphones")

UnknownModeRequest ==
    /\ op = "create_campaign"
    /\ Truthy(request.mode) /\ Truthy(request.product_name)
    /\ ~KnownMode(request.mode.v)

UnknownBriefRequest ==
    /\ op = "create_campaign"
    /\ ~(Truthy(request.mode) /\ Truthy(request.product_name))
    /\ IsStr(request.brief_type)
    /\ request.brief_type.v \notin Range(BriefOrder)

ProductLaunch == InitialBriefs["product_launch"]

\* the prompts and the audio text every invocation made so far was given are those of
\* the product_launch brief
RunsProductLaunch ==
    \A i \in 1..Len(calls) :
        /\ calls[i].job \in {"image_1", "image_2", "image_3"} =>
              \E k \in 1..3 :
                  /\ calls[i].job = "image_" \o ToString(k)
                  /\ StartsWith(calls[i].input.prompt, ProductLaunch.prompts[k])
        /\ calls[i].job = "audio" => calls[i].input.prompt_a = ProductLaunch.audio

\* C11: an unknown name never makes a campaign fail: get_mode answers None for it; a
\* campaign asked with an unknown mode and a product name raises nothing (short of a
\* failed metadata write) and runs and returns the product_launch brief campaign; a
\* campaign asked with an unknown brief_type runs with the prompts and the audio text
\* of the product_launch brief.
C11_UnknownNameFallsBack ==
    /\ get_mode(studio_modes, UnknownModeName) = PyNone
    /\ UnknownModeRequest =>
          /\ raised \in {"none", "OSError"}
          /\ IsLegacyRun
          /\ ~IsModeRun
          /\ args.brief_type = PyStr("product_launch")
          /\ RunsProductLaunch
          /\ (pc = "done" /\ raised = "none") =>
                /\ ret # PyNone
                /\ ret.brief_type = PyStr("product_launch")
                /\ Len(calls) = 4
    /\ UnknownBriefRequest =>
          /\ raised \in {"none", "OSError"}
          /\ BriefKey(args) = "product_launch"
          /\ RunsProductLaunch
          /\ (pc = "done" /\ raised = "none") => (ret # PyNone /\ Len(calls) = 4)

C11_Witness ==
    /\ UnknownModeRequest
    /\ pc = "done"
    /\ raised = "none"
    /\ ret.brief_type = PyStr("product_launch")
    /\ Len(ret.images) = 3
    /\ ret.audio # PyNone

C11_WitnessBrief ==
    /\ UnknownBriefRequest
    /\ pc = "done"
    /\ raised = "none"
    /\ Len(ret.images) = 3

\* C12: within one campaign run, studio-mode or legacy, every job is invoked at most
\* once whatever the outcomes: no job name occurs twice among the invocations made,
\* in particular not after an invocation that raised or answered a falsy value.
C12_NoJobInvokedTwice ==
    \A i, j \in 1..Len(calls) : calls[i].job = calls[j].job => i = j

\* a studio-mode run and a legacy run that went on to their end after a failed
\* invocation
C12_Witness ==
    /\ IsModeRun
    /\ pc = "done"
    /\ Len(outs) = 3
    /\ ~Succeeded(outs[1])
    /\ ~Succeeded(outs[2])

C12_WitnessLegacy ==
    /\ IsLegacyRun
    /\ pc = "done"
    /\ Len(outs) = 5
    /\ outs[2].raises
    /\ ~Succeeded(outs[4])

\* the scheduling of the single thread: a run that can take a step takes it
FairSpec == Spec /\ WF_vars(Next)

\* every invocation so far raised, or answered a string or a falsy value
StringOutcomes ==
    \A i \in 1..Len(outs) : outs[i].raises \/ outs[i].value.kind \in {"str", "none"}

\* the studio-mode run has written its metadata record
ModeRecordWritten ==
    /\ saves = 1
    /\ LET dir == ModeCampaignDir(results.mode, results.product, results.timestamp)
       IN  dir \in DOMAIN files /\ files[dir].complete

C13_WritesOnceAfterLastJob ==
    (IsModeRun /\ StringOutcomes) =>
        /\ raised \in {"none", "OSError"}
        /\ saves <= 1
        /\ saves = 1 => pc \in {"mode_landing", "done"}
        /\ pc = "mode_landing" => ModeRecordWritten
        /\ (pc = "done" /\ raised = "none") =>
              /\ ModeRecordWritten
              /\ Len(calls) = IF args.include_video THEN 3 ELSE 2
              /\ ret # PyNone
              /\ ret.images = results.images
              /\ ret.video = results.video
              /\ ret.audio = results.audio

\* C13: whatever each job's invocation does (answer a string, answer a falsy value or
\* raise), a studio-mode run comes to its end, and short of a failed write it ends with
\* the metadata record written exactly once, after the last job was attempted, and
\* with the result returned: no failure of a job becomes a failure of the run.
C13_ModeRunTerminates ==
    /\ [](C13_WritesOnceAfterLastJob)
    /\ (IsModeRun ~> (IsModeRun /\ pc = "done"))

\* a run all of whose jobs failed, ended with its record written and its result
\* returned
C13_Witness ==
    /\ IsModeRun
    /\ pc = "done"
    /\ raised = "none"
    /\ Len(outs) = 3
    /\ \A i \in 1..3 : ~Succeeded(outs[i])
    /\ outs[1].raises
    /\ ModeRecordWritten
    /\ ret # PyNone

\* the run is past the call of its save step
PastSave == op = "create_campaign" /\ pc \in {"mode_landing", "legacy_landing", "done"}

\* C14: a failure while writing the metadata record is not masked: when the write of
\* _save_mode_campaign or _save_campaign fails the exception leaves create_campaign,
\* no result is returned and no landing page is generated; a run is never past its
\* save step with no record written and no exception raised.
C14_WriteFailurePropagates ==
    /\ raised = "OSError" =>
          /\ pc = "done"
          /\ saves = 0
          /\ ret = PyNone
          /\ pages = EmptyMap
          /\ "landing_page" \notin DOMAIN results
    /\ (PastSave /\ saves = 0) =>
          /\ raised # "none"
          /\ ret = PyNone
          /\ pages = EmptyMap

\* a failed write in a studio-mode run and in a legacy run that asked for a landing page
C14_Witness ==
    /\ IsModeRun
    /\ args.generate_landing
    /\ raised = "OSError"
    /\ Len(results.images) = 1
    /\ Len(calls) >= 2

C14_WitnessLegacy ==
    /\ IsLegacyRun
    /\ args.generate_landing
    /\ raised = "OSError"
    /\ Len(results.images) = 3

\* every reference of the in-memory result is a string or null
RefsAreStrings ==
    /\ \A i \in 1..Len(results.images) : results.images[i].url.kind = "str"
    /\ results.video.kind \in {"str", "none"}
    /\ results.audio.kind \in {"str", "none"}

\* the directory of the run's metadata record
CampaignDir ==
    IF IsModeRun THEN ModeCampaignDir(results.mode, results.product, results.timestamp)
    ELSE LegacyCampaignDir(results.brief_type, results.timestamp)

RecordWritten ==
    /\ op = "create_campaign"
    /\ saves = 1
    /\ CampaignDir \in DOMAIN files
    /\ files[CampaignDir].complete

C15_WitnessMode ==
    /\ IsModeRun
    /\ RecordWritten /\ RefsAreStrings
    /\ Len(results.images) = 1
    /\ results.video.kind = "str"
    /\ results.audio = PyNone

\* the schema create_job_schema returned to the run at line 349
CompiledSchema ==
    create_job_schema(args.mode.v, args.product_name.v, args.product_desc.v).value

\* C16: the job schema is immutable after compilation: from the return of
\* create_job_schema to the end of the studio-mode run no job's model identifier and
\* no entry of any job's input map changes, for every mode and every combination of
\* job outcomes.
C16_SchemaImmutable ==
    IsModeRun =>
        /\ job_schema.keys = CompiledSchema.keys
        /\ job_schema.meta = CompiledSchema.meta
        /\ \A j \in Range(JobOrder) :
              /\ job_schema.jobs[j].model = CompiledSchema.jobs[j].model
              /\ job_schema.jobs[j].input = CompiledSchema.jobs[j].input

\* the end of a run of a mode that prefers svd, with an image generated and the video
\* invoked
C16_Witness ==
    /\ IsModeRun
    /\ pc = "done"
    /\ current_mode.preferred_models.video = "svd"
    /\ Len(results.images) = 1
    /\ \E i \in 1..Len(calls) : calls[i].job = "hero_video"
    /\ job_schema = CompiledSchema

SixModeNames ==
    <<"parallax_nocturne", "rust_luxe_baroque", "kinetic_typography", "webgl_dreams",
      "mineral_futurism", "soft_brutalism">>

\* C17: the mode catalog is never mutated: after any sequence of get_mode, list_modes
\* and get_mode_info calls, a compilation or a campaign run, the catalog holds the
\* same six modes with the same configuration values, and every list_modes call
\* returns the same six names in insertion order.
C17_CatalogNeverMutated ==
    /\ studio_modes.keys = SixModeNames
    /\ DOMAIN studio_modes.at = Range(SixModeNames)
    /\ \A m \in Range(SixModeNames) : studio_modes.at[m] = InitializeModes.at[m]
    /\ list_modes(studio_modes) = SixModeNames
    /\ op = "list_modes" => ret = PyList(SixModeNames)

\* a list_modes call that has returned, and the end of a studio-mode campaign
\* run
C17_Witness ==
    /\ op = "list_modes"
    /\ pc = "idle"
    /\ ret = PyList(SixModeNames)

C17_WitnessRun ==
    /\ IsModeRun
    /\ pc = "done"
    /\ raised = "none"
    /\ "landing_page" \in DOMAIN ret
    /\ current_mode = studio_modes.at["webgl_dreams"]

\* the run has rendered its landing page
PageRendered ==
    /\ RecordWritten
    /\ pc = "done"
    /\ (CampaignDir \o "/index.html") \in DOMAIN pages

\* C18: generate_landing_page is a pure function of the metadata record: for every
\* record and every enhancer configuration the page it returns has exactly one gallery
\* item per image record, carrying that image's url, and a video block if and only if
\* the record's video reference is non-null, and rendering it makes no remote
\* invocation.
C18_PageShowsTheRecord ==
    PageRendered =>
        LET campaign_data == LoadMetadata(files[CampaignDir])
            page == pages[CampaignDir \o "/index.html"]
        IN  /\ Len(page.gallery) = Len(campaign_data.images)
            /\ \A i \in 1..Len(campaign_data.images) :
                  page.gallery[i].src = campaign_data.images[i].url
            /\ (page.video # PyNone) <=> (campaign_data.video # PyNone)
            /\ page.video # PyNone => page.video = campaign_data.video
            /\ \A i \in 1..Len(calls) :
                  calls[i].job \in {"hero_image", "hero_video", "soundtrack",
                                    "enhance_1", "enhance_2", "enhance_3",
                                    "image_1", "image_2", "image_3", "video", "audio"}

\* the same for the enhancer of the default configuration only (use_claude false)
C18_TemplatePageShowsTheRecord == (PageRendered /\ ~use_claude) => C18_PageShowsTheRecord

\* a page rendered with use_claude set for a record that holds images
C18_ClaudePage ==
    /\ PageRendered
    /\ use_claude
    /\ Len(LoadMetadata(files[CampaignDir]).images) = 3
    /\ Len(pages[CampaignDir \o "/index.html"].gallery) = 0

(***************************************************************************)
(* Compilation against a catalog one of whose presets is partially         *)
(* specified: the table of _initialize_modes with entries of one mode's    *)
(* quality_settings and preferred_models left out.                         *)
(***************************************************************************)
QualityKnobs == {"steps", "guidance", "fps", "frames", "audio_duration"}
ModelKinds == {"image", "video", "audio"}

Restrict(f, S) == [x \in S |-> f[x]]

PartialPresets(config) ==
    {[config EXCEPT !.quality_settings = Restrict(@, Q),
                    !.preferred_models = Restrict(@, M)] :
        Q \in SUBSET QualityKnobs, M \in SUBSET ModelKinds}

PresetModeNames == {"parallax_nocturne", "rust_luxe_baroque"}

\* create_job_schema over the catalog its StudioModes() builds; preferred_models is
\* indexed directly by each prepare_*_job (lines 233, 279, 321), a missing key raises
create_job_schema_from(modes, mode_name, product_name, product_desc) ==
    LET mode == get_mode(modes, mode_name)
    IN  IF mode = PyNone THEN
            [raised |-> "ValueError", value |-> PyNone]
        ELSE IF ~(ModelKinds \subseteq DOMAIN mode.preferred_models) THEN
            [raised |-> "KeyError", value |-> PyNone]
        ELSE
            [raised |-> "none",
             value |->
               [meta |-> [mode |-> mode_name,
                          product |-> product_name,
                          description |-> product_desc,
                          studio_inspiration |-> mode.studio_inspiration],
                keys |-> JobOrder,
                jobs |->
                  [hero_image |-> prepare_image_job(mode,
                       product_name \o " product hero shot, " \o product_desc, "16:9"),
                   detail_shot |-> prepare_image_job(mode,
                       product_name \o " detail close-up, premium product photography, "
                           \o product_desc, "1:1"),
                   lifestyle_shot |-> prepare_image_job(mode,
                       product_name \o " in use, lifestyle photography, " \o product_desc, "4:3"),
                   hero_video |-> prepare_video_job(mode,
                       PyStr(product_name \o " cinematic reveal, " \o product_desc), PyNone),
                   soundtrack |-> prepare_audio_job(mode,
                       "product launch music for " \o product_name \o ", "
                           \o mode.audio_character)]]]

PresetInit ==
    /\ \E m \in PresetModeNames :
          \E config \in PartialPresets(InitializeModes.at[m]) :
             studio_modes = [InitializeModes EXCEPT !.at[m] = config]
    /\ pc = "idle"
    /\ op = "none"
    /\ request = DefaultArgs
    /\ args = DefaultArgs
    /\ briefs = [keys |-> BriefOrder, at |-> InitialBriefs]
    /\ current_mode = PyNone
    /\ job_schema = PyNone
    /\ results = PyNone
    /\ idx = 0
    /\ calls = <<>>
    /\ outs = <<>>
    /\ files = EmptyMap
    /\ saves = 0
    /\ pages = EmptyMap
    /\ enhanced = <<>>
    /\ use_claude = FALSE
    /\ ret = PyNone
    /\ raised = "none"

CompilePreset(mode_name, product_name, product_desc) ==
    /\ pc = "idle"
    /\ LET r == create_job_schema_from(studio_modes, mode_name, product_name, product_desc)
       IN  /\ raised' = r.raised
           /\ ret' = r.value
           /\ job_schema' = r.value
    /\ op' = "create_job_schema"
    /\ request' = [DefaultArgs EXCEPT !.mode = PyStr(mode_name),
                                      !.product_name = PyStr(product_name),
                                      !.product_desc = PyStr(product_desc)]
    /\ pc' = "done"
    /\ UNCHANGED <<args, studio_modes, briefs, current_mode, results, idx, calls, outs,
                   files, saves, pages, enhanced, use_claude>>

PresetNext ==
    \E m \in PresetModeNames, p \in ProductNameInputs, d \in DescriptionInputs :
        CompilePreset(m, p, d)

PresetSpec == PresetInit /\ [][PresetNext]_vars

\* the preset the compilation just made was given
CompiledPreset == studio_modes.at[request.mode.v]

PresetCompiled == op = "create_job_schema" /\ pc = "done"

\* the omitted knobs of the compiled preset show in the jobs with their defaults
KnobDefaultsUsed ==
    LET q == CompiledPreset.quality_settings
        image == ret.jobs["hero_image"].input
        video == ret.jobs["hero_video"].input
        audio == ret.jobs["soundtrack"].input
    IN  /\ "steps" \notin DOMAIN q => image.num_inference_steps = 30
        /\ ("guidance" \notin DOMAIN q /\ "guidance" \in DOMAIN image) =>
              image.guidance = PyFloat("7.5")
        /\ ("guidance" \notin DOMAIN q /\ "guidance_scale" \in DOMAIN image) =>
              image.guidance_scale = PyFloat("7.5")
        /\ ("fps" \notin DOMAIN q /\ "fps" \in DOMAIN video) => video.fps = 8
        /\ ("frames" \notin DOMAIN q /\ "num_frames" \in DOMAIN video) =>
              video.num_frames = 24
        /\ ("audio_duration" \notin DOMAIN q /\ "duration" \in DOMAIN audio) =>
              audio.duration = 10

\* C19: compilation never fails on a partially specified preset: for a mode whose
\* configuration omits any of the quality knobs steps, guidance, fps, frames and
\* audio_duration or any of the preferred-model entries image, video and audio,
\* create_job_schema still returns a complete five-job schema, the omitted parameter
\* replaced by a default.
C19_PartialPresetCompiles ==
    PresetCompiled =>
        /\ raised = "none"
        /\ ret # PyNone
        /\ ret.keys = JobOrder
        /\ DOMAIN ret.jobs = Range(JobOrder)
        /\ \A j \in DOMAIN ret.jobs : WellFormedJob(ret.jobs[j])
        /\ KnobDefaultsUsed

\* the same for a preset that keeps its three preferred-model entries
C19_MissingKnobsCompile ==
    (PresetCompiled /\ ModelKinds \subseteq DOMAIN CompiledPreset.preferred_models) =>
        /\ raised = "none"
        /\ ret # PyNone
        /\ ret.keys = JobOrder
        /\ DOMAIN ret.jobs = Range(JobOrder)
        /\ \A j \in DOMAIN ret.jobs : WellFormedJob(ret.jobs[j])
        /\ KnobDefaultsUsed

\* a preset without its image model, whose compilation raised
C19_MissingModelRaises ==
    /\ PresetCompiled
    /\ CompiledPreset.quality_settings = InitializeModes.at[request.mode.v].quality_settings
    /\ DOMAIN CompiledPreset.preferred_models = {"video", "audio"}
    /\ raised = "KeyError"
    /\ ret = PyNone

\* a preset with no quality knob at all, compiled with the defaults
C19_NoKnobsCompiled ==
    /\ PresetCompiled
    /\ DOMAIN CompiledPreset.quality_settings = {}
    /\ raised = "none"
    /\ ret.jobs["hero_video"].input.fps = 8

\* the place of a job in the fixed order: the prompt enhancements of a legacy run,
\* then the images, then the video, then the audio
JobRank(j) ==
    IF j \in {"enhance_1", "enhance_2", "enhance_3"} THEN 0
    ELSE IF j \in {"hero_image", "detail_shot", "lifestyle_shot",
                   "image_1", "image_2", "image_3"} THEN 1
    ELSE IF j \in {"hero_video", "video"} THEN 2
    ELSE 3

InImageLoop == pc \in {"mode_images", "legacy_enhance", "legacy_images"}

InVideoStep == pc \in {"mode_video", "legacy_video"}

\* C20: jobs run strictly sequentially in a fixed order in both campaign paths: every
\* invocation started has returned or failed before the next one starts, no video
\* invocation starts before every image invocation of the run has returned or
\* failed, and the audio invocation starts only after the video step has finished or
\* been skipped.
C20_StrictlySequential ==
    /\ Len(outs) = Len(calls)
    /\ \A i \in 1..Len(calls) : outs[i].job = calls[i].job
    /\ \A i, j \in 1..Len(calls) : i < j => JobRank(calls[i].job) <= JobRank(calls[j].job)
    /\ InImageLoop => \A i \in 1..Len(calls) : JobRank(calls[i].job) <= 1
    /\ InVideoStep => \A i \in 1..Len(calls) : JobRank(calls[i].job) <= 1
    /\ (\E i \in 1..Len(calls) : JobRank(calls[i].job) = 3) =>
          pc \in {"mode_save", "mode_landing", "legacy_save", "legacy_landing", "done"}

\* a legacy run that made its five invocations, one of the images failing, and a
\* studio-mode run that made its three
C20_Witness ==
    /\ IsLegacyRun
    /\ pc = "done"
    /\ JobsCalled = <<"image_1", "image_2", "image_3", "video", "audio">>
    /\ outs[2].raises
    /\ Succeeded(outs[4])

C20_WitnessMode ==
    /\ IsModeRun
    /\ pc = "done"
    /\ JobsCalled = <<"hero_image", "hero_video", "soundtrack">>
    /\ ~Succeeded(outs[1])

PreferredAudioModel == InitializeModes.at[request.mode.v].preferred_models.audio

\* C21: for every mode the compiled soundtrack job follows the family of the mode's
\* preferred audio model: musicgen gives an input of prompt, duration (the mode's
\* audio_duration), temperature, top_k and top_p; any other family gives the
\* denoising-based fallback job of prompt_a, denoising and seed_image_id, with no
\* duration.
C21_SoundtrackFollowsFamily ==
    (SchemaReturned /\ KnownMode(request.mode.v)) =>
        LET job == ret.jobs["soundtrack"]
            config == InitializeModes.at[request.mode.v]
        IN  IF Contains("musicgen", PreferredAudioModel) THEN
                /\ job.model = "meta/musicgen"
                /\ DOMAIN job.input = {"prompt", "duration", "temperature", "top_k", "top_p"}
                /\ job.input.duration = config.quality_settings.audio_duration
                /\ job.input.temperature = PyFloat("0.8")
                /\ job.input.top_k = 250
                /\ job.input.top_p = PyFloat("0.9")
            ELSE
                /\ job.model = "riffusion/riffusion"
                /\ DOMAIN job.input = {"prompt_a", "denoising", "seed_image_id"}
                /\ job.input.denoising = PyFloat("0.75")
                /\ job.input.seed_image_id = "vibes"

\* a compiled musicgen soundtrack with the mode's own duration, and a riffusion one
C21_Witness ==
    /\ SchemaReturned
    /\ request.mode.v = "parallax_nocturne"
    /\ ret.jobs["soundtrack"].input.duration = 15

C21_WitnessFallback ==
    /\ SchemaReturned
    /\ request.mode.v = "rust_luxe_baroque"
    /\ "prompt_a" \in DOMAIN ret.jobs["soundtrack"].input

\* a studio-mode campaign asked without a description or with an empty one
NoDescriptionRun == IsModeRun /\ ~Truthy(request.product_desc)

\* C22: the product description is never null in a studio-mode campaign: when
\* create_campaign is called with a mode and a product name and product_desc is None
\* or empty, the description in every compiled prompt, in the schema meta and in the
\* result record is the empty string.
C22_DescriptionNeverNull ==
    NoDescriptionRun =>
        LET product_name == request.product_name.v
            kernel == current_mode.prompt_kernel
            jobs == job_schema.jobs
        IN  /\ job_schema.meta.description = ""
            /\ results.description = ""
            /\ jobs["hero_image"].input.prompt
                  = product_name \o " product hero shot, " \o ", " \o kernel
            /\ jobs["detail_shot"].input.prompt
                  = product_name \o " detail close-up, premium product photography, "
                       \o ", " \o kernel
            /\ jobs["lifestyle_shot"].input.prompt
                  = product_name \o " in use, lifestyle photography, " \o ", " \o kernel
            /\ StartsWith(jobs["hero_video"].input.prompt,
                          product_name \o " cinematic reveal, , ")
            /\ \A i \in 1..Len(results.images) :
                  results.images[i].prompt = jobs[results.images[i].type].input.prompt
            /\ (saves = 1 /\ IsModeRun) => files[CampaignDir].description = ""

\* a run asked with product_desc None that wrote its record
C22_Witness ==
    /\ NoDescriptionRun
    /\ request.product_desc = PyNone
    /\ pc = "done"
    /\ saves = 1
    /\ Len(results.images) = 1
    /\ ret.description = ""

C22_WitnessEmpty ==
    /\ NoDescriptionRun
    /\ request.product_desc = PyStr("")
    /\ pc = "done"
    /\ ret # PyNone

\* the legacy run is past its video step
LegacyVideoDone ==
    IsLegacyRun /\ pc \in {"legacy_audio", "legacy_save", "legacy_landing", "done"}

LegacyVideoCalls == SelectSeq(calls, LAMBDA c : c.job = "video")

\* the prompt positions whose image invocation succeeded
SucceededIndices == {k \in 1..3 : SucceededJob("image_" \o ToString(k))}

\* C23: in a legacy campaign with video requested and video_type image2video the video
\* model is invoked only if at least one image was generated, and then its
\* input_image is the url of the first successful image, the one of lowest prompt
\* index; with no successful image no video invocation is made and video stays null.
\* With video_type text2video or zeroscope the video model is invoked whether or not
\* any image succeeded.
C23_LegacyVideoUsesFirstImage ==
    (LegacyVideoDone /\ args.include_video) =>
        IF args.video_type \in {"text2video", "zeroscope"} THEN
            /\ Len(LegacyVideoCalls) = 1
            /\ "input_image" \notin DOMAIN LegacyVideoCalls[1].input
        ELSE IF SucceededIndices = {} THEN
            /\ Len(results.images) = 0
            /\ Len(LegacyVideoCalls) = 0
            /\ results.video = PyNone
        ELSE
            /\ Len(LegacyVideoCalls) = 1
            /\ LegacyVideoCalls[1].input.input_image = results.images[1].url
            /\ \A k \in SucceededIndices : results.images[1].index <= k
            /\ results.images[1].index \in SucceededIndices

\* an image2video run whose first image failed and whose second succeeded, one with no
\* image at all, and a text2video run with no image
C23_Witness ==
    /\ LegacyVideoDone /\ args.include_video
    /\ args.video_type = "image2video"
    /\ SucceededIndices = {2, 3}
    /\ Len(LegacyVideoCalls) = 1
    /\ results.images[1].index = 2

C23_WitnessSkipped ==
    /\ LegacyVideoDone /\ args.include_video
    /\ args.video_type = "image2video"
    /\ Len(calls) = 4
    /\ SucceededIndices = {}
    /\ pc = "done"

C23_WitnessText ==
    /\ LegacyVideoDone /\ args.include_video
    /\ args.video_type = "text2video"
    /\ SucceededIndices = {}
    /\ Len(LegacyVideoCalls) = 1

\* C24: when include_video is false no video model is invoked in either campaign path
\* and the video field of the result is null at the end of the run, whatever the mode,
\* the brief or the image outcomes.
C24_NoVideoUnlessAsked ==
    (op = "create_campaign" /\ ~request.include_video) =>
        /\ \A i \in 1..Len(calls) : calls[i].job \notin {"hero_video", "video"}
        /\ results # PyNone => results.video = PyNone
        /\ (pc = "done" /\ raised = "none") => ret.video = PyNone

\* the end of a studio-mode run and of a legacy run without video, each with an image
\* generated
C24_Witness ==
    /\ IsModeRun
    /\ ~request.include_video
    /\ pc = "done"
    /\ raised = "none"
    /\ Len(ret.images) = 1
    /\ JobsCalled = <<"hero_image", "soundtrack">>

C24_WitnessLegacy ==
    /\ IsLegacyRun
    /\ ~request.include_video
    /\ pc = "done"
    /\ raised = "none"
    /\ Len(ret.images) = 3
    /\ JobsCalled = <<"image_1", "image_2", "image_3", "audio">>

LandingPath == CampaignDir \o "/index.html"

\* C25: a landing page is produced only when generate_landing is true, only after the
\* metadata record of the same run has been written, and from the record read back
\* from exactly the path the save step wrote (mode_product_timestamp in the
\* studio-mode path, brieftype_timestamp in the legacy path); the result gains a
\* landing_page entry only in that case.
C25_LandingAfterSave ==
    /\ pages # EmptyMap =>
          /\ op = "create_campaign"
          /\ request.generate_landing /\ args.generate_landing
          /\ RecordWritten
          /\ pc = "done"
          /\ DOMAIN pages = {LandingPath}
          /\ CampaignDir = IF IsModeRun
                           THEN request.mode.v \o "_" \o request.product_name.v \o "_"
                                   \o ToString(results.timestamp)
                           ELSE ToStr(request.brief_type).v \o "_"
                                   \o ToString(results.timestamp)
          /\ pages[LandingPath] =
                generate_landing_page(IF IsModeRun THEN FALSE ELSE use_claude,
                                      LoadMetadata(files[CampaignDir]))
          /\ results.landing_page = PyStr(LandingPath)
    /\ (results # PyNone /\ "landing_page" \in DOMAIN results) => pages # EmptyMap
    /\ (op = "create_campaign" /\ pc = "done" /\ raised = "none" /\ args.generate_landing)
          => pages # EmptyMap

\* a studio-mode run and a legacy run that rendered a page from their record, and a run
\* that was not asked for one
C25_Witness ==
    /\ IsModeRun
    /\ pc = "done"
    /\ LandingPath \in DOMAIN pages
    /\ Len(pages[LandingPath].gallery) = 1
    /\ ret.landing_page = PyStr(LandingPath)

C25_WitnessLegacy ==
    /\ IsLegacyRun
    /\ pc = "done"
    /\ LandingPath \in DOMAIN pages
    /\ ~use_claude
    /\ Len(pages[LandingPath].gallery) = 3

C25_WitnessNoPage ==
    /\ IsModeRun
    /\ pc = "done"
    /\ raised = "none"
    /\ ~request.generate_landing
    /\ pages = EmptyMap
    /\ "landing_page" \notin DOMAIN ret

(***************************************************************************)
(* Two campaigns on one director: a legacy campaign that enhances the      *)
(* prompts of a brief, then a second create_campaign on the same object    *)
(* with the same brief and no enhancement.  The brief table, the files and *)
(* the pages are the director's and the disk's and outlive the first call. *)
(***************************************************************************)
RepeatBrief == "educational_content"

FirstRequest ==
    [DefaultArgs EXCEPT !.brief_type = PyStr(RepeatBrief), !.enhance_prompts = TRUE]

SecondRequest == [DefaultArgs EXCEPT !.brief_type = PyStr(RepeatBrief)]

\* create_campaign called again once the first call has returned
SecondCall(a) ==
    /\ pc = "done"
    /\ op = "create_campaign"
    /\ raised = "none"
    /\ request.enhance_prompts
    /\ request' = a
    /\ calls' = <<>>
    /\ outs' = <<>>
    /\ saves' = 0
    /\ enhanced' = <<>>
    /\ \E ts \in Timestamps : LegacyEntry(a, ts)
    /\ UNCHANGED <<op, studio_modes, briefs, files, pages>>

RepeatNext ==
    \/ CreateCampaign(FirstRequest)
    \/ SecondCall(SecondRequest)
    \/ LegacyEnhanceStep
    \/ LegacyImageStep
    \/ LegacyVideoStep
    \/ LegacyAudioStep
    \/ LegacySave
    \/ LegacyFinish

RepeatSpec == Init /\ [][RepeatNext]_vars

\* the first campaign is past its enhancement loop
FirstEnhanced ==
    /\ op = "create_campaign"
    /\ request.enhance_prompts
    /\ pc \in {"legacy_images", "legacy_video", "legacy_audio", "legacy_save",
               "legacy_landing", "done"}
    /\ raised # "TypeError"

InSecondCampaign == op = "create_campaign" /\ ~request.enhance_prompts

OriginalPrompts == InitialBriefs[RepeatBrief].prompts

\* what enhance_prompt can return for the prompt p
IsEnhancementOf(e, p) ==
    \/ e = enhance_with_claude(EnhancementPrompt(p, "cinematic")).v
    \/ \E o \in LlmOutcomes :
          /\ enhance_with_replicate_llm(EnhancementPrompt(p, "cinematic"), o) # PyNone
          /\ e = enhance_with_replicate_llm(EnhancementPrompt(p, "cinematic"), o).v

TableEnhanced ==
    /\ Len(briefs.at[RepeatBrief].prompts) = Len(OriginalPrompts)
    /\ \A k \in 1..Len(OriginalPrompts) :
          /\ briefs.at[RepeatBrief].prompts[k] # OriginalPrompts[k]
          /\ IsEnhancementOf(briefs.at[RepeatBrief].prompts[k], OriginalPrompts[k])
    /\ \A b \in DOMAIN briefs.at \ {RepeatBrief} : briefs.at[b] = InitialBriefs[b]
    /\ briefs.at[RepeatBrief].audio = InitialBriefs[RepeatBrief].audio

C26_EnhancedTableKept ==
    /\ FirstEnhanced => TableEnhanced
    /\ InSecondCampaign =>
          /\ TableEnhanced
          /\ \A i \in 1..Len(calls) :
                \A k \in 1..3 :
                   calls[i].job = "image_" \o ToString(k) =>
                      /\ StartsWith(calls[i].input.prompt, briefs.at[RepeatBrief].prompts[k])
                      /\ ~StartsWith(calls[i].input.prompt, OriginalPrompts[k])
          /\ \A i \in 1..Len(results.images) :
                results.images[i].prompt
                   = briefs.at[RepeatBrief].prompts[results.images[i].index]

\* a step of a campaign that does not enhance leaves the brief table as it was
C26_PlainRunKeepsTable ==
    (op' = "create_campaign" /\ ~request'.enhance_prompts) => briefs' = briefs

\* C26: a legacy campaign with enhance_prompts true overwrites the prompt list of the
\* selected brief in the director's shared brief table with the enhanced prompts, so
\* a second campaign on the same director with the same brief starts from the
\* already-enhanced prompts and not from the original ones; a run with
\* enhance_prompts false leaves the brief table unchanged.
C26_SharedBriefTable == []C26_EnhancedTableKept /\ [][C26_PlainRunKeepsTable]_vars

\* the end of a second campaign whose three images were generated from the prompts the
\* first campaign left in the table
C26_Witness ==
    /\ InSecondCampaign
    /\ pc = "done"
    /\ raised = "none"
    /\ Len(ret.images) = 3
    /\ ret.images[1].prompt = "a richly lit scene"
    /\ EndsWith(ret.images[2].prompt, "8k resolution")

\* a legacy campaign asked to enhance its prompts through the hosted LLM
EnhancingRun == op = "create_campaign" /\ request.enhance_prompts /\ IsLegacyRun

\* the enhanced prompts the run holds: its own list inside the loop, the brief's list
\* after it
EnhancedSoFar ==
    IF pc = "legacy_enhance" \/ raised = "TypeError" THEN enhanced
    ELSE briefs.at[BriefKey(args)].prompts

EnhanceOuts == SelectSeq(outs, LAMBDA o : o.job \in {"enhance_1", "enhance_2", "enhance_3"})

QualityTerms ==
    ", masterpiece quality, highly detailed, professional photography, "
        \o "golden hour lighting, 8k resolution"

\* C27: enhance_prompt returns a string for every outcome of the hosted LLM call: the
\* LLM's text when the call yields output, and the rule-based enhancement (the prompt
\* followed by the fixed quality terms) when the call raises or yields nothing; so a
\* legacy campaign with enhance_prompts true never fails because of prompt
\* enhancement.
C27_EnhancementNeverFails ==
    EnhancingRun =>
        /\ raised \in {"none", "OSError"}
        /\ ~use_claude =>
              /\ pc # "legacy_enhance" => Len(EnhanceOuts) = 3
              /\ \A k \in 1..Len(EnhanceOuts) :
                    k <= Len(EnhancedSoFar) =>
                       IF EnhanceOuts[k].raises \/ ~Truthy(EnhanceOuts[k].value)
                       THEN EndsWith(EnhancedSoFar[k], QualityTerms)
                       ELSE EnhancedSoFar[k] = "a richly lit scene"

\* the same without the answer that yields nothing: the call raised or gave text
C27_EnhancementOfRaiseOrText ==
    (EnhancingRun /\ \A k \in 1..Len(EnhanceOuts) :
                        EnhanceOuts[k].raises \/ Truthy(EnhanceOuts[k].value)) =>
        C27_EnhancementNeverFails

\* a campaign ended by the TypeError of `enhanced[:60]` on the None that enhance_prompt
\* returned for an empty answer of the LLM
C27_EmptyAnswerFails ==
    /\ EnhancingRun
    /\ pc = "done"
    /\ raised = "TypeError"
    /\ Len(EnhanceOuts) = 2
    /\ ~EnhanceOuts[2].raises /\ ~Truthy(EnhanceOuts[2].value)
    /\ ret = PyNone
    /\ saves = 0

\* C28: when a studio-mode campaign is asked with an unknown mode name the fallback
\* product_launch campaign runs with default options whatever flags the caller gave:
\* no video model is invoked and no landing page is generated even if include_video
\* and generate_landing were true, and the result returned is a legacy-shaped record
\* of brief_type product_launch that carries neither the requested mode nor the
\* product name.
C28_FallbackIgnoresFlags ==
    UnknownModeRequest =>
        /\ args = [DefaultArgs EXCEPT !.brief_type = PyStr("product_launch")]
        /\ \A i \in 1..Len(calls) : calls[i].job \in {"image_1", "image_2", "image_3", "audio"}
        /\ pages = EmptyMap
        /\ results.video = PyNone
        /\ DOMAIN results = {"brief_type", "quality", "model", "images", "video", "audio",
                             "timestamp"}
        /\ results.brief_type = PyStr("product_launch")
        /\ (pc = "done" /\ raised = "none") =>
              /\ ret = results
              /\ JobsCalled = <<"image_1", "image_2", "image_3", "audio">>
              /\ LegacyCampaignDir(PyStr("product_launch"), results.timestamp) \in DOMAIN files

\* the end of the fallback of a request that asked for video and a landing page
C28_Witness ==
    /\ UnknownModeRequest
    /\ request.include_video
    /\ request.generate_landing
    /\ pc = "done"
    /\ raised = "none"
    /\ Len(ret.images) = 3
    /\ ret.brief_type = PyStr("product_launch")

BothSupplied == Truthy(request.mode) /\ Truthy(request.product_name)

\* the image invocations of the run carry the steps and guidance of the standard
\* quality level (the models that are not flux take them)
StandardQualityUsed ==
    \A i \in 1..Len(calls) :
        "num_inference_steps" \in DOMAIN calls[i].input =>
            /\ calls[i].input.num_inference_steps = quality_levels["standard"].steps
            /\ calls[i].input.guidance_scale = quality_levels["standard"].guidance

\* C29: create_campaign takes the studio-mode path if and only if both mode and
\* product_name are supplied and non-empty (a known mode then runs as a studio-mode
\* campaign, an unknown one as its product_launch fallback); a mode supplied without
\* a product name is ignored and the legacy brief path runs, with the product_launch
\* brief when brief_type is absent or unknown; an unknown quality name falls back to
\* the standard quality settings.
C29_PathSelection ==
    (op = "create_campaign" /\ pc # "idle") =>
        /\ IsModeRun <=> (BothSupplied /\ KnownMode(request.mode.v))
        /\ (BothSupplied /\ ~KnownMode(request.mode.v)) =>
              args = [DefaultArgs EXCEPT !.brief_type = PyStr("product_launch")]
        /\ ~BothSupplied =>
              /\ IsLegacyRun
              /\ args = request
              /\ current_mode = PyNone /\ job_schema = PyNone
              /\ \A i \in 1..Len(calls) :
                    calls[i].job \notin {"hero_image", "hero_video", "soundtrack"}
              /\ (~IsStr(request.brief_type) \/ request.brief_type.v \notin Range(BriefOrder))
                    => (BriefKey(args) = "product_launch" /\ RunsProductLaunch)
              /\ request.quality \notin DOMAIN quality_levels => StandardQualityUsed

\* a run asked with a mode and no product name, and a run asked with a quality name
\* the table does not have
C29_Witness ==
    /\ op = "create_campaign"
    /\ request.mode = PyStr("parallax_nocturne")
    /\ ~Truthy(request.product_name)
    /\ pc = "done"
    /\ raised = "none"
    /\ Len(ret.images) = 3
    /\ ret.brief_type = PyNone

C29_WitnessQuality ==
    /\ op = "create_campaign"
    /\ request.quality = "ultra"
    /\ request.image_model = PyStr("sdxl")
    /\ pc = "done"
    /\ Len(calls) = 4
    /\ calls[1].input.num_inference_steps = quality_levels["standard"].steps

LegacyPrompts == briefs.at[BriefKey(args)].prompts

\* the prompts of the image loop whose iteration is over
ImageStepsDone ==
    IF pc = "legacy_enhance" THEN {}
    ELSE IF pc = "legacy_images" THEN 1..(idx - 1)
    ELSE 1..Len(LegacyPrompts)

RecordedIndices == {results.images[i].index : i \in 1..Len(results.images)}

UnknownImageModel == ImageModel(args) \notin DOMAIN models

\* C30: in a legacy brief campaign the images list holds at most one record per brief
\* prompt, the index of each record is the 1-based position of its prompt (not the
\* count of successes) and the indices are strictly increasing; a prompt whose
\* invocation raised or returned a falsy value has no record; an image_model key that
\* is not in the model table makes every image job fail, with no record, and the run
\* goes on to its audio and save steps.
C30_LegacyImageRecords ==
    IsLegacyRun =>
        /\ Len(results.images) <= Len(LegacyPrompts)
        /\ \A i \in 1..Len(results.images) :
              /\ results.images[i].index \in ImageStepsDone
              /\ results.images[i].prompt = LegacyPrompts[results.images[i].index]
        /\ \A i, j \in 1..Len(results.images) :
              i < j => results.images[i].index < results.images[j].index
        /\ ~UnknownImageModel =>
              \A k \in ImageStepsDone :
                 k \in RecordedIndices <=> SucceededJob("image_" \o ToString(k))
        /\ UnknownImageModel =>
              /\ results.images = <<>>
              /\ \A i \in 1..Len(calls) : JobRank(calls[i].job) # 1
              /\ raised \in {"none", "OSError"}
              /\ pc = "done" => \E i \in 1..Len(calls) : calls[i].job = "audio"

\* a finished legacy run whose first image job failed and whose later ones succeeded:
\* the records carry the indices 2 and 3
C30_Witness ==
    /\ IsLegacyRun
    /\ pc = "done"
    /\ raised = "none"
    /\ Len(ret.images) = 2
    /\ ret.images[1].index = 2
    /\ ret.images[2].index = 3
    /\ ~SucceededJob("image_1")

\* a finished legacy run asked with an image model the table does not have
C30_WitnessUnknownModel ==
    /\ IsLegacyRun
    /\ request.image_model = PyStr("dalle")
    /\ pc = "done"
    /\ raised = "none"
    /\ ret.images = <<>>
    /\ Truthy(ret.audio)
    /\ saves = 1
====
